---- MODULE Spec2Model ----
(***************************************************************************)
(* TraxDub control core: the graph/navigation model (src/src/ui/mod.rs),   *)
(* the knob gesture accumulator of the controller                           *)
(* (src/src/controller/mod.rs) and the socket transport of the engine      *)
(* client (src/src/engine/mod.rs).                                          *)
(*                                                                          *)
(* Each subsystem has its own specification (SpecUI, SpecKnob, SpecFraming,*)
(* SpecEngine);                                                            *)
(* the variables of the other subsystems stay at their initial values.     *)
(***************************************************************************)
EXTENDS Integers, Sequences, FiniteSets, TLC

\* ------------------------------------------------------------------------
\* Bounds of the model (not program constants)
\* ------------------------------------------------------------------------
\* create_link calls that pass validation (each one bumps order_counter)
MaxOrder == 3
\* primary navigations from a node (each one bumps visit_counter)
MaxVisit == 1
\* requests written to the engine socket
MaxRequests == 2
\* unsolicited bundles sent by the engine
MaxNotifications == 1
\* messages built while the sequence numbers are observed
MaxBuilds == 3
\* messages written to the socket after the connection is made
MaxWrites == 2
\* starts of the process
MaxStartups == 3
\* blank nodes made before the message
MaxBlankNodes == 1
\* raw messages in one JACK process cycle
MaxCycleLen == 2
\* order_counter at most, where nodes are inserted one after the other
MaxGraphOrder == 7
\* menus on the stack
MaxMenus == 2
\* steps that a focused option index is followed below usize::MAX
MaxWrapped == 1
\* options of a menu
MaxMenuOptions == 3
MaxPuts == 3

\* ------------------------------------------------------------------------
\* Graph / navigation model: src/src/ui/mod.rs
\* ------------------------------------------------------------------------
VARIABLES
    nodes,            \* UI.nodes: HashMap<String, Node>, here id -> node_type
    links,            \* UI.links: HashSet<Link>
    focused_element,  \* UI.focused_element: Option<Element>
    visit_counter,    \* UI.visit_counter
    order_counter,    \* UI.order_counter
    menu_stack,       \* UI.menu_stack: Vec<Menu>
    focused_menu_option, \* UI.focused_menu_option: Option<usize>, {} or {index}
    menu_focus_memory,   \* UI.menu_focus_memory: HashMap<String, usize>
    ui_call           \* history: the last call made on the model and its result

ui_vars ==
    <<nodes, links, focused_element, visit_counter, order_counter,
      menu_stack, focused_menu_option, menu_focus_memory, ui_call>>

\* ------------------------------------------------------------------------
\* Controller: src/src/controller/mod.rs
\* ------------------------------------------------------------------------
VARIABLES
    state,                      \* Controller.state
    base_control_config,        \* Controller.base_control_config: {} or {config}
    main_knob_accumulator,      \* Controller.main_knob_accumulator
    secondary_knob_accumulator, \* Controller.secondary_knob_accumulator
    current_feature,            \* Controller.current_feature: {} or {feature}
    current_element,            \* Controller.current_element: {} or {element}
    feature_menu_state,         \* per feature: its menu_state
    plugin_ui_element,          \* PluginFeature.ui_element: {} or {element}
    ctl_event                   \* history: the last event processed and the
                                \* navigate calls made while processing it

ctl_vars ==
    <<state, base_control_config, main_knob_accumulator, secondary_knob_accumulator,
      current_feature, current_element, feature_menu_state, plugin_ui_element, ctl_event>>

\* ------------------------------------------------------------------------
\* Engine transport: src/src/engine/mod.rs
\* ------------------------------------------------------------------------
VARIABLES
    engine_out,       \* bytes the engine has produced and not yet put on the socket
    wire,             \* bytes on the socket that a read would return now
    read_buffer,      \* Engine.read_buffer
    socket_lock,      \* holder of the Engine.socket mutex: {} or {thread}
    pc,               \* per thread: the step of the engine call it is in
    op,               \* per thread: the engine operation in progress
    buffer,           \* per thread: receive_message's local `buffer`
    bundle_start_seq, \* per thread: bundle_start_seq.is_some()
    found_bundle_end, \* per thread: found_bundle_end
    result,           \* per thread: what the last finished operation returned
    next_request,     \* number of requests written so far
    notifications,    \* number of unsolicited bundles the engine has sent
    callers,          \* the threads that call the engine
    prompt            \* the engine never pauses longer than the read timeout
                      \* while it has output pending

eng_vars ==
    <<engine_out, wire, read_buffer, socket_lock, pc, op, buffer, bundle_start_seq,
      found_bundle_end, result, next_request, notifications, callers, prompt>>

\* ------------------------------------------------------------------------
\* Message builder: src/src/engine/protocol.rs
\* ------------------------------------------------------------------------
VARIABLES
    SEQUENCE_NUMBER,  \* the global AtomicU32, as <<high half, low half>>
    seq_pc,           \* per thread: the step of serialize_graph it is in
    seq_num,          \* per thread: serialize_graph's local `seq_num`
    seq_kind,         \* per thread: the message being built
    seq_built,        \* the numbers drawn, in the order of the fetch_add calls
    seq_messages      \* the messages returned, in the order of the returns

seq_vars == <<SEQUENCE_NUMBER, seq_pc, seq_num, seq_kind, seq_built, seq_messages>>

\* ------------------------------------------------------------------------
\* Engine startup: Engine::new and connect_socket (src/src/engine/mod.rs)
\* ------------------------------------------------------------------------
VARIABLES
    conn_pc,          \* where Engine::new is: "connect", "sleep", "connected", "failed"
    attempts,         \* connect_socket's local `attempts`
    conn_log,         \* what connect_socket has done so far, in order
    conn_written      \* the messages written to the socket, in order

conn_vars == <<conn_pc, attempts, conn_log, conn_written>>

\* ------------------------------------------------------------------------
\* Calibration and the config store (src/src/controller/init.rs)
\* ------------------------------------------------------------------------
VARIABLES
    config_file,      \* ~/.traxdub/base-control.json: {} or {its content}
    learned,          \* the (channel, control) pairs the current or last
                      \* calibration has learned, in order
    startup           \* the last start of the process: how many there were,
                      \* its force_init flag, whether a calibration had been
                      \* completed before it, and whether it loaded a config

cal_vars == <<config_file, learned, startup>>

\* ------------------------------------------------------------------------
\* Protocol round trip (src/src/engine/protocol.rs)
\* ------------------------------------------------------------------------
VARIABLES
    BLANK_NODE_COUNTER,  \* the id of the next blank node
    rt_pc,               \* "args", "built", "answered", "parsed"
    rt_args,             \* the (source, destination) passed to build_connect
    rt_message,          \* the Turtle text that build_connect returned
    rt_response,         \* the Turtle text received from the engine
    rt_connections       \* Graph.connections as parse_graph returned it

rt_vars == <<BLANK_NODE_COUNTER, rt_pc, rt_args, rt_message, rt_response, rt_connections>>

\* ------------------------------------------------------------------------
\* MIDI input and the control loop (src/src/controller/driver.rs,
\* Controller::run_until_signal)
\* ------------------------------------------------------------------------
VARIABLES
    running,          \* the AtomicBool that the Ctrl-C handler clears
    sender_alive,     \* the driver thread holds the sending end of the channel
    midi_in,          \* the raw messages of the next JACK process cycle
    queue,            \* the events in the channel
    loop_pc,          \* run_until_signal: "check", "recv", "process", "returned"
    loop_event,       \* the event received: {} or {event}
    jack_log,         \* history: the messages of the last cycle and what
                      \* from_raw made of each
    loop_log          \* history: receives completed and events taken since
                      \* the flag was cleared, errors logged, events
                      \* processed after an error

loop_vars ==
    <<running, sender_alive, midi_in, queue, loop_pc, loop_event, jack_log, loop_log>>

\* ------------------------------------------------------------------------
\* The graph model read by one thread while another changes it
\* ------------------------------------------------------------------------
VARIABLES
    mut_pc,           \* the critical section the mutating thread is at
    mut_call,         \* its call: the arguments and the locals
    mut_pre,          \* history: the model when the call was made
    observed          \* what the reading thread saw last: {} or {snapshot}

torn_vars == <<mut_pc, mut_call, mut_pre, observed>>

\* The mutexes of the UI as two threads call its operations
\* ------------------------------------------------------------------------
VARIABLES
    mutex_owner,      \* for each Mutex field of UI: the thread holding it, or Unlocked
    thread_pc         \* for each thread: the lock and unlock steps its call has left

lock_vars == <<mutex_owner, thread_pc>>

\* The state of the engine as get_graph reads it
\* ------------------------------------------------------------------------
VARIABLES
    state_response,   \* the response of the engine to build_get_state
    parsed_graph      \* {} or {the Graph that parse_graph returned}

state_vars == <<state_response, parsed_graph>>

\* The subsystems added to the first three
aux_vars == <<seq_vars, conn_vars, cal_vars, rt_vars, loop_vars, torn_vars, lock_vars,
              state_vars>>

vars == <<ui_vars, ctl_vars, eng_vars, aux_vars>>

\* i64::MAX, scaled to the integer range of TLC; the code only
\* compares it and negates it, it never adds to it.
I64_MAX == 2147483647

NodeType == {"Normal", "PortIn", "PortOut", "Context"}
LinkType == {"Normal", "PortIn", "PortOut", "Virtual"}

\* Node ids used as inputs; "inputs" and "outputs" are the anchors that
\* insert_node compares against.
NodeIds == {"inputs", "outputs", "n1", "n2"}

\* (id, node_type) pairs that create_node is called with
CreateNodeInputs == {<<"n1", "PortIn">>}
\* the node that insert_node puts on a link
InsertNodeInputs == {<<"n2", "Normal">>}

\* ids that remove_node is called with
RemoveNodeInputs == {"n1"}

\* (from_id, to_id) pairs that create_link and remove_link are called with
LinkInputs == {<<"inputs", "outputs">>, <<"inputs", "n1">>, <<"n1", "outputs">>}

\* (link_from, link_to) pairs that insert_node is called with
InsertLinkInputs == {<<"inputs", "outputs">>, <<"inputs", "n1">>, <<"n1", "outputs">>}

\* link_type values that create_link is called with
CreateLinkTypes == {"Normal", "Virtual"}

NavigationLevel == {"Main", "Secondary"}
KnobDirection == {"Backward", "Forward"}

\* Element: the focus is None, Node(id) or Link(from_id, to_id, link_type)
NoFocus == [tag |-> "None", from_id |-> "", to_id |-> "", link_type |-> ""]
ElementNode(id) == [tag |-> "Node", from_id |-> id, to_id |-> "", link_type |-> ""]
ElementLink(f, t, lt) == [tag |-> "Link", from_id |-> f, to_id |-> t, link_type |-> lt]

Link(f, t, v, o, lt) ==
    [from_id |-> f, to_id |-> t, visited_last |-> v, order |-> o, link_type |-> lt]

\* impl PartialEq for Link: only from_id and to_id are compared
LinkEq(a, b) == a.from_id = b.from_id /\ a.to_id = b.to_id

\* HashSet<Link>::contains / insert / remove under that equality.
\* std's HashSet::insert leaves the set unmodified when an equal element is
\* already present (the stored element is not replaced).
HashSetContains(S, l) == \E x \in S : LinkEq(x, l)
HashSetInsertDuplicate(S, l) == S \cup {l}
HashSetInsert(S, l) == IF HashSetContains(S, l) THEN S ELSE S \cup {l}
HashSetRemove(S, l) == {x \in S : ~LinkEq(x, l)}

\* The state of the model as one value, so that composite operations
\* (insert_node) can be written as the sequence of calls they make.
UiState ==
    [nodes |-> nodes, links |-> links, focused |-> focused_element,
     visit |-> visit_counter, order |-> order_counter,
     menus |-> menu_stack, option |-> focused_menu_option,
     memory |-> menu_focus_memory]

Ok(s) == [ok |-> TRUE, s |-> s]
Err(s) == [ok |-> FALSE, s |-> s]

MapInsert(m, k, v) == [x \in (DOMAIN m) \cup {k} |-> IF x = k THEN v ELSE m[x]]
MapRemove(m, k) == [x \in (DOMAIN m) \ {k} |-> m[x]]

\* UI::create_node
create_node(s, id, node_type) ==
    LET should_focus == node_type # "Context"
        s1 == [s EXCEPT !.nodes = MapInsert(s.nodes, id, node_type)]
    IN  Ok(IF should_focus THEN [s1 EXCEPT !.focused = ElementNode(id)] ELSE s1)

\* UI::remove_node
remove_node(s, id) ==
    IF id \in DOMAIN s.nodes
    THEN Ok([s EXCEPT !.nodes = MapRemove(s.nodes, id)])
    ELSE Err(s)

\* create_link taking its order number before it looks for the nodes
create_link_counting_first(s, from_id, to_id, link_type) ==
    IF from_id \notin DOMAIN s.nodes \/ to_id \notin DOMAIN s.nodes
    THEN Err([s EXCEPT !.order = s.order + 1])
    ELSE
      LET from_is_context == s.nodes[from_id] = "Context"
          to_is_context == s.nodes[to_id] = "Context"
          counter == s.order + 1
          link_order == IF from_is_context /\ to_is_context THEN I64_MAX ELSE counter
          link == Link(from_id, to_id, -link_order, link_order, link_type)
      IN  Ok([s EXCEPT
                !.order = counter,
                !.links = HashSetInsert(s.links, link),
                !.focused = IF s.focused = NoFocus
                            THEN ElementLink(from_id, to_id, link_type)
                            ELSE s.focused])

\* UI::create_link
create_link(s, from_id, to_id, link_type) ==
    IF from_id \notin DOMAIN s.nodes THEN Err(s)
    ELSE IF to_id \notin DOMAIN s.nodes THEN Err(s)
    ELSE
      LET from_is_context == s.nodes[from_id] = "Context"
          to_is_context == s.nodes[to_id] = "Context"
          counter == s.order + 1
          link_order == IF from_is_context /\ to_is_context THEN I64_MAX ELSE counter
          link == Link(from_id, to_id, -link_order, link_order, link_type)
      IN  Ok([s EXCEPT
                !.order = counter,
                !.links = HashSetInsert(s.links, link),
                !.focused = IF s.focused = NoFocus
                            THEN ElementLink(from_id, to_id, link_type)
                            ELSE s.focused])

\* UI::remove_link
remove_link(s, from_id, to_id) ==
    LET link == Link(from_id, to_id, 0, 0, "Normal")
    IN  IF HashSetContains(s.links, link)
        THEN Ok([s EXCEPT !.links = HashSetRemove(s.links, link)])
        ELSE Err(s)

\* UI::calculate_link_type; "None" stands for a node that is not in the map
calculate_link_type(from_type, to_type) ==
    CASE from_type = "Context" /\ to_type = "Context" -> "Virtual"
      [] from_type = "Context" /\ to_type = "PortIn" -> "PortIn"
      [] from_type = "PortOut" /\ to_type = "Context" -> "PortOut"
      [] from_type \in {"Normal", "PortIn"} /\ to_type = "Context" -> "Virtual"
      [] from_type = "Context" /\ to_type \in {"Normal", "PortOut"} -> "Virtual"
      [] OTHER -> "Normal"

MapGet(m, k) == IF k \in DOMAIN m THEN m[k] ELSE "None"

\* insert_node removing the original link whatever it is
insert_node_no_sentinel(s, node_id, node_type, link_from, link_to) ==
    LET r0 == create_node(s, node_id, node_type)
        r1 == create_link(r0.s, link_from, node_id,
                          calculate_link_type(MapGet(r0.s.nodes, link_from), node_type))
        r2 == create_link(r1.s, node_id, link_to,
                          calculate_link_type(node_type, MapGet(r0.s.nodes, link_to)))
    IN  IF ~r1.ok THEN r1
        ELSE IF ~r2.ok THEN r2
        ELSE remove_link(r2.s, link_from, link_to)

\* UI::insert_node: create_node, two create_link calls and remove_link, each
\* `?` returning early with the effects of the earlier calls kept.
insert_node(s, node_id, node_type, link_from, link_to) ==
    LET r0 == create_node(s, node_id, node_type)
        from_node_type == MapGet(r0.s.nodes, link_from)
        to_node_type == MapGet(r0.s.nodes, link_to)
        link1_type == calculate_link_type(from_node_type, node_type)
        link2_type == calculate_link_type(node_type, to_node_type)
        r1 == create_link(r0.s, link_from, node_id, link1_type)
        r2 == create_link(r1.s, node_id, link_to, link2_type)
    IN  IF ~r1.ok THEN r1
        ELSE IF ~r2.ok THEN r2
        ELSE IF ~(link_from = "inputs" /\ link_to = "outputs")
             THEN remove_link(r2.s, link_from, link_to)
             ELSE r2

\* Iterator::max_by_key / min_by_key over a HashSet: among equal keys the
\* element returned depends on the iteration order of the set, which is
\* unspecified, so every element with the extreme key is a possible result.
MaxByVisited(C) == {l \in C : \A m \in C : m.visited_last <= l.visited_last}
MinByOrder(C) == {l \in C : \A m \in C : l.order <= m.order}
MaxByOrder(C) == {l \in C : \A m \in C : m.order <= l.order}

\* find_sibling_link taking any link beyond the current order
find_sibling_link_any(sibling_links, current_order, direction) ==
    IF direction = "Forward"
    THEN {l \in sibling_links : l.order > current_order}
    ELSE {l \in sibling_links : l.order < current_order}

\* UI::find_sibling_link: the possible results (empty: None)
find_sibling_link(sibling_links, current_order, direction) ==
    IF direction = "Forward"
    THEN MinByOrder({l \in sibling_links : l.order > current_order})
    ELSE MaxByOrder({l \in sibling_links : l.order < current_order})

UnwrapOr(o, d) == IF o = {} THEN d ELSE CHOOSE x \in o : TRUE
Last(q) == q[Len(q)]

\* usize::MAX, what 0 - 1 is when the subtraction wraps. The model only
\* compares it with option counts.
USIZE_MAX == 2147483647

\* a - b and a + b on usize where the operation wraps
WrappingSub(a, b) == IF a >= b THEN a - b ELSE USIZE_MAX - (b - a) + 1
WrappingAdd(a, b) == IF a <= USIZE_MAX - b THEN a + b ELSE a - (USIZE_MAX - b) - 1

\* UI::navigate, menu branch (a menu is open and the level is Main): the
\* states the call can leave. option_count - 1 underflows when the menu has
\* no options, and current_idx + 1 overflows at usize::MAX: the operation
\* wraps, or, in a build with overflow checks, the thread panics there and
\* nothing is written.
navigate_menu_clamped(s, direction) ==
    LET current_menu == Last(s.menus)
        option_count == Len(current_menu.options)
        current_idx == UnwrapOr(s.option, 0)
        new_idx == IF direction = "Forward"
                   THEN (IF current_idx + 1 < option_count THEN current_idx + 1
                         ELSE current_idx)
                   ELSE (IF current_idx > 0 THEN current_idx - 1 ELSE 0)
    IN  {IF new_idx # current_idx
         THEN [s EXCEPT !.option = {new_idx},
                        !.memory = MapInsert(s.memory, current_menu.id, new_idx)]
         ELSE s}

navigate_menu(s, direction) ==
    LET current_menu == Last(s.menus)
        option_count == Len(current_menu.options)
        current_idx == UnwrapOr(s.option, 0)
        new_idx == IF direction = "Forward"
                   THEN (IF WrappingAdd(current_idx, 1) < option_count
                         THEN WrappingAdd(current_idx, 1) ELSE 0)
                   ELSE (IF current_idx > 0 THEN current_idx - 1
                         ELSE WrappingSub(option_count, 1))
        moved == IF new_idx # current_idx
                 THEN [s EXCEPT !.option = {new_idx},
                                !.memory = MapInsert(s.memory, current_menu.id, new_idx)]
                 ELSE s
        overflows == IF direction = "Forward" THEN current_idx = USIZE_MAX
                     ELSE current_idx = 0 /\ option_count = 0
    IN  IF overflows
        THEN {moved, s}
        ELSE {moved}

\* navigate_visit marking the link as the one visited longest ago
navigate_visit_oldest(s, link) ==
    LET counter == s.visit + 1
        updated_link == [link EXCEPT !.visited_last = -I64_MAX]
    IN  [s EXCEPT !.visit = counter,
                  !.focused = ElementLink(link.from_id, link.to_id, link.link_type),
                  !.links = HashSetInsert(HashSetRemove(s.links, link), updated_link)]

\* navigate_visit numbering the visit without marking the link
navigate_visit_unmarked(s, link) ==
    [s EXCEPT !.visit = s.visit + 1,
              !.focused = ElementLink(link.from_id, link.to_id, link.link_type)]

\* UI::navigate, Main level with a node focused: the link found gets a new
\* visited_last (remove, update, re-insert) and becomes the focus.
navigate_visit(s, link) ==
    LET counter == s.visit + 1
        updated_link == [link EXCEPT !.visited_last = counter]
    IN  [s EXCEPT !.visit = counter,
                  !.focused = ElementLink(link.from_id, link.to_id, link.link_type),
                  !.links = HashSetInsert(HashSetRemove(s.links, link), updated_link)]

\* navigate_to_node without the Context check
navigate_to_node_marking(s, id) ==
    IF id \in DOMAIN s.nodes /\ s.nodes[id] # "Context"
    THEN [s EXCEPT !.focused = ElementNode(id),
                   !.links = {IF l.to_id = id THEN [l EXCEPT !.visited_last = s.visit]
                              ELSE l : l \in s.links}]
    ELSE s

navigate_to_node_any(s, id) ==
    IF id \in DOMAIN s.nodes
    THEN [s EXCEPT !.focused = ElementNode(id)]
    ELSE s

\* Moving the focus to a node, unless it is missing or a Context node
navigate_to_node(s, id) ==
    IF id \in DOMAIN s.nodes /\ s.nodes[id] # "Context"
    THEN [s EXCEPT !.focused = ElementNode(id)]
    ELSE s

\* UI::navigate: the set of states the call can end in
navigate(s, level, direction) ==
    LET f == s.focused IN
    IF s.menus # <<>> /\ level = "Main" THEN navigate_menu(s, direction)
    ELSE IF level = "Main" THEN
        IF f.tag = "Node" THEN
            LET found == MaxByVisited(
                    IF direction = "Forward"
                    THEN {l \in s.links : l.from_id = f.from_id}
                    ELSE {l \in s.links : l.to_id = f.from_id})
            IN  IF found = {} THEN {s} ELSE {navigate_visit(s, l) : l \in found}
        ELSE IF f.tag = "Link" THEN
            {navigate_to_node(s, IF direction = "Forward" THEN f.to_id ELSE f.from_id)}
        ELSE {s}
    ELSE
        IF f.tag = "Link" THEN
            LET current == {l \in s.links : l.from_id = f.from_id /\ l.to_id = f.to_id}
            IN  IF current = {} THEN {s}
                ELSE LET current_link == CHOOSE l \in current : TRUE
                         sibling_links ==
                            {l \in s.links : l.from_id = f.from_id
                                /\ ~(l.from_id = f.from_id /\ l.to_id = f.to_id)}
                         found == find_sibling_link(sibling_links, current_link.order, direction)
                     IN  IF found = {} THEN {s}
                         ELSE {[s EXCEPT !.focused =
                                  ElementLink(l.from_id, l.to_id, l.link_type)] : l \in found}
        ELSE IF f.tag = "Node" THEN
            LET recent == MaxByVisited({l \in s.links : l.to_id = f.from_id})
            IN  IF recent = {} THEN {s}
                ELSE UNION {
                    LET sibling_links ==
                            {l \in s.links : l.from_id = most_recent_link.from_id
                                /\ ~(l.from_id = most_recent_link.from_id
                                     /\ l.to_id = most_recent_link.to_id)}
                        found == find_sibling_link(sibling_links, most_recent_link.order, direction)
                    IN  IF found = {} THEN {s}
                        ELSE {navigate_to_node(s, sibling_link.to_id) : sibling_link \in found}
                    : most_recent_link \in recent}
        ELSE {s}

\* ------------------------------------------------------------------------
\* Calls on the graph model
\* ------------------------------------------------------------------------
UiCall(name, args, ok) == [op |-> name, args |-> args, ok |-> ok]

UiSet(s, call) ==
    /\ nodes' = s.nodes
    /\ links' = s.links
    /\ focused_element' = s.focused
    /\ visit_counter' = s.visit
    /\ order_counter' = s.order
    /\ menu_stack' = s.menus
    /\ focused_menu_option' = s.option
    /\ menu_focus_memory' = s.memory
    /\ ui_call' = call

\* UI::new
UiNew ==
    [nodes |-> <<>>, links |-> {}, focused |-> NoFocus, visit |-> 0, order |-> 0,
     menus |-> <<>>, option |-> {}, memory |-> <<>>]

\* Controller::new: the anchors and the sentinel link are created right
\* after the model is constructed, before any event is processed.
ControllerNewUi ==
    LET s1 == create_node(UiNew, "inputs", "Context").s
        s2 == create_node(s1, "outputs", "Context").s
    IN  create_link(s2, "inputs", "outputs", "Virtual").s

UiInitAt(s) ==
    /\ nodes = s.nodes
    /\ links = s.links
    /\ focused_element = s.focused
    /\ visit_counter = s.visit
    /\ order_counter = s.order
    /\ menu_stack = s.menus
    /\ focused_menu_option = s.option
    /\ menu_focus_memory = s.memory
    /\ ui_call = UiCall("new", <<>>, TRUE)

UiInit == UiInitAt(ControllerNewUi)

CreateNode ==
    /\ \E in \in CreateNodeInputs :
           LET r == create_node(UiState, in[1], in[2])
           IN  UiSet(r.s, UiCall("create_node", <<in[1], in[2]>>, r.ok))
    /\ UNCHANGED <<ctl_vars, eng_vars, aux_vars>>

RemoveNode ==
    /\ \E id \in RemoveNodeInputs :
           LET r == remove_node(UiState, id)
           IN  UiSet(r.s, UiCall("remove_node", <<id>>, r.ok))
    /\ UNCHANGED <<ctl_vars, eng_vars, aux_vars>>

CreateLink ==
    /\ \E p \in LinkInputs, link_type \in CreateLinkTypes :
           LET r == create_link(UiState, p[1], p[2], link_type)
           IN  /\ r.s.order <= MaxOrder
               /\ UiSet(r.s, UiCall("create_link", <<p[1], p[2], link_type>>, r.ok))
    /\ UNCHANGED <<ctl_vars, eng_vars, aux_vars>>

RemoveLink ==
    /\ \E p \in LinkInputs :
           LET r == remove_link(UiState, p[1], p[2])
           IN  UiSet(r.s, UiCall("remove_link", <<p[1], p[2]>>, r.ok))
    /\ UNCHANGED <<ctl_vars, eng_vars, aux_vars>>

InsertNode ==
    /\ \E in \in InsertNodeInputs, p \in InsertLinkInputs :
           LET r == insert_node(UiState, in[1], in[2], p[1], p[2])
           IN  /\ r.s.order <= MaxOrder
               /\ UiSet(r.s, UiCall("insert_node", <<in[1], in[2], p[1], p[2]>>, r.ok))
    /\ UNCHANGED <<ctl_vars, eng_vars, aux_vars>>

Navigate ==
    /\ \E level \in NavigationLevel, direction \in KnobDirection :
           \E s \in navigate(UiState, level, direction) :
               /\ s.visit <= MaxVisit
               /\ UiSet(s, UiCall("navigate", <<level, direction>>, TRUE))
    /\ UNCHANGED <<ctl_vars, eng_vars, aux_vars>>

\* The nodes that the features insert, with their kinds
GraphNodes == [n1 |-> "PortIn", n2 |-> "Normal"]

\* (link_from, link_to) pairs that nodes are inserted on: the links of the
\* graph, which the focus can be on, and the sentinel pair
GraphLinkInputs(l) ==
    {<<x.from_id, x.to_id>> : x \in l} \cup {<<"inputs", "outputs">>}

\* insert_node called for one node after the other
InsertNodeOnLink ==
    /\ \E n \in DOMAIN GraphNodes, p \in GraphLinkInputs(links) :
           LET r == insert_node(UiState, n, GraphNodes[n], p[1], p[2])
           IN  /\ r.s.order <= MaxGraphOrder
               /\ UiSet(r.s, UiCall("insert_node", <<n, GraphNodes[n], p[1], p[2]>>, r.ok))
    /\ UNCHANGED <<ctl_vars, eng_vars, aux_vars>>

GraphNext ==
    \/ InsertNodeOnLink
    \/ Navigate

UiNext ==
    \/ CreateNode
    \/ RemoveNode
    \/ CreateLink
    \/ RemoveLink
    \/ InsertNode
    \/ Navigate

\* ------------------------------------------------------------------------
\* Menus of the graph model
\* ------------------------------------------------------------------------
ElementMenuOption(menu_id, option_id) ==
    [tag |-> "MenuOption", from_id |-> menu_id, to_id |-> option_id, link_type |-> ""]

\* A menu is its id and the ids of its options, in order
Menu(id, options) == [id |-> id, options |-> options]

\* UI::select: the element returned (NoFocus: None); no state is changed
select_focused_element(s) == s.focused

select(s) ==
    IF /\ s.menus # <<>>
       /\ s.option # {}
       /\ UnwrapOr(s.option, 0) < Len(Last(s.menus).options)
    THEN ElementMenuOption(Last(s.menus).id,
                           Last(s.menus).options[UnwrapOr(s.option, 0) + 1])
    ELSE s.focused

\* UI::open_menu
open_menu(s, menu) ==
    LET remembered == IF menu.id \in DOMAIN s.memory THEN s.memory[menu.id] ELSE 0
        focused_idx == IF remembered < Len(menu.options) THEN remembered ELSE 0
    IN  Ok([s EXCEPT !.option = {focused_idx}, !.menus = Append(s.menus, menu)])

\* UI::close_menu
close_menu(s) ==
    IF s.menus = <<>> THEN Err(s)
    ELSE LET stack == SubSeq(s.menus, 1, Len(s.menus) - 1)
         IN  IF stack # <<>>
             THEN LET menu_id == Last(stack).id
                      focused_idx == IF menu_id \in DOMAIN s.memory
                                     THEN s.memory[menu_id] ELSE 0
                  IN  Ok([s EXCEPT !.menus = stack, !.option = {focused_idx}])
             ELSE Ok([s EXCEPT !.menus = stack, !.option = {}])

\* UI::menu_stack_size
menu_stack_size(s) == Len(s.menus)

\* back closing every menu
back_all(s) == [ok |-> TRUE, s |-> [close_menu(s).s EXCEPT !.menus = <<>>]]

\* UI::back: close_menu with its error dropped; ok is the value returned
back(s) ==
    LET r == close_menu(s)
    IN  [ok |-> menu_stack_size(r.s) = 0, s |-> r.s]

\* close_all_menus leaving the first menu on the stack
close_all_menus_but_first(s) == Ok([s EXCEPT !.menus = SubSeq(s.menus, 1, 1)])

\* UI::close_all_menus (the focused option is left as it was)
close_all_menus(s) == Ok([s EXCEPT !.menus = <<>>])

\* Menus opened on the graph model: the timestamp list of a saved session
\* while it has no file, one file or MaxMenuOptions files, and the list of
\* another session
TimestampMenu(mnemonic, n) ==
    Menu(<<"timestamp_selection", mnemonic>>, [i \in 1..n |-> <<"timestamp", i>>])
UiMenus ==
    {TimestampMenu("mnemonic_1", n) : n \in {0, 1, MaxMenuOptions}}
    \cup {TimestampMenu("mnemonic_2", 2)}

OpenMenu ==
    /\ Len(menu_stack) < MaxMenus
    /\ \E menu \in UiMenus :
           LET r == open_menu(UiState, menu)
           IN  UiSet(r.s, UiCall("open_menu", <<menu>>, r.ok))
    /\ UNCHANGED <<ctl_vars, eng_vars, aux_vars>>

CloseMenu ==
    /\ LET r == close_menu(UiState)
       IN  UiSet(r.s, UiCall("close_menu", <<>>, r.ok))
    /\ UNCHANGED <<ctl_vars, eng_vars, aux_vars>>

CloseAllMenus ==
    /\ LET r == close_all_menus(UiState)
       IN  UiSet(r.s, UiCall("close_all_menus", <<>>, r.ok))
    /\ UNCHANGED <<ctl_vars, eng_vars, aux_vars>>

\* select: the element returned is recorded with the call
Select ==
    /\ UiSet(UiState, UiCall("select", <<select(UiState)>>, TRUE))
    /\ UNCHANGED <<ctl_vars, eng_vars, aux_vars>>

\* navigate while menus are opened and closed; an index that wrapped is
\* followed for MaxWrapped steps back from usize::MAX
NavigateMenus ==
    /\ \E level \in NavigationLevel, direction \in KnobDirection :
           \E s \in navigate(UiState, level, direction) :
               /\ s.visit <= MaxVisit
               /\ \A i \in s.option : i < USIZE_MAX - MaxWrapped => i <= MaxMenuOptions
               /\ UiSet(s, UiCall("navigate", <<level, direction>>, TRUE))
    /\ UNCHANGED <<ctl_vars, eng_vars, aux_vars>>

UiMenuNext ==
    \/ OpenMenu
    \/ CloseMenu
    \/ CloseAllMenus
    \/ Select
    \/ NavigateMenus

\* ------------------------------------------------------------------------
\* Controller: events in Navigating and BrowsingMenu
\* ------------------------------------------------------------------------
DELTA_THRESHOLD == 256

Abs(x) == IF x < 0 THEN -x ELSE x

MidiAssignment(channel, control, control_type) ==
    [channel |-> channel, control |-> control, control_type |-> control_type]

\* The calibrated assignments that load_config finds at startup
LoadedConfig ==
    [main_knob |-> MidiAssignment(0, 7, "Knob"),
     secondary_knob |-> MidiAssignment(0, 10, "Knob"),
     selection_button |-> MidiAssignment(0, 20, "Button"),
     back_button |-> MidiAssignment(0, 21, "Button")]

ControlChange(channel, control, value) ==
    [type |-> "ControlChange", channel |-> channel, control |-> control, value |-> value]

\* Values sent by a knob: 64 is the centre, below it the delta is negative
KnobValues == {0, 64, 96}
\* The secondary knob is turned one way only
SecondaryKnobValues == {0, 64}
\* Values sent by a button: 0 is a release
ButtonValues == {0, 127}

\* Events fed to the controller. Selection presses while a menu is browsed
\* are dispatched to the features and are not among these inputs.
MidiEvents ==
    {ControlChange(0, 7, v) : v \in KnobValues}
    \cup {ControlChange(0, 10, v) : v \in SecondaryKnobValues}
    \cup {ControlChange(0, 20, v) : v \in ButtonValues}
    \cup {ControlChange(0, 21, v) : v \in ButtonValues}
    \cup {ControlChange(1, 7, 112)}
    \cup {[type |-> "ProgramChange", channel |-> 0, control |-> 7, value |-> 0]}

Matches(assignment, event) ==
    assignment.channel = event.channel /\ assignment.control = event.control

\* process_knob_value with the sign test inverted
process_knob_value_flipped(value, accumulator, threshold) ==
    LET delta == IF value >= 64 THEN value - 64 ELSE -(64 - value)
        acc == accumulator + delta
    IN  IF Abs(acc) >= threshold
        THEN [direction |-> {IF acc > 0 THEN "Forward" ELSE "Backward"}, accumulator |-> 0]
        ELSE [direction |-> {}, accumulator |-> acc]

\* Controller::process_knob_value: the direction returned ({}: None) and the
\* accumulator after the call
process_knob_value(value, accumulator, threshold) ==
    LET delta == IF value >= 64 THEN value - 64 ELSE -(64 - value)
        acc == accumulator + delta
    IN  IF Abs(acc) >= threshold
        THEN [direction |-> {IF acc > 0 THEN "Backward" ELSE "Forward"}, accumulator |-> 0]
        ELSE [direction |-> {}, accumulator |-> acc]

\* The controller and the graph model it drives, as one value
CtlState ==
    [ui |-> UiState, state |-> state, main |-> main_knob_accumulator,
     secondary |-> secondary_knob_accumulator, feature |-> current_feature,
     element |-> current_element, fstate |-> feature_menu_state,
     plugin_element |-> plugin_ui_element, calls |-> <<>>, err |-> FALSE]

\* self.ui.navigate(level, direction) from the controller: the possible
\* outcomes, each with the call appended to the calls made for this event
CtlNavigate(c, level, direction) ==
    {[c EXCEPT !.ui = s, !.calls = Append(c.calls, <<level, direction>>)] :
        s \in navigate(c.ui, level, direction)}

\* A knob event: accumulate, and navigate when a direction is returned
CtlKnob(c, field, level, value) ==
    LET r == process_knob_value(value, c[field], DELTA_THRESHOLD)
        c1 == [c EXCEPT ![field] = r.accumulator]
    IN  IF r.direction # {}
        THEN CtlNavigate(c1, level, UnwrapOr(r.direction, "Forward"))
        ELSE {c1}

\* The name shown for an option of the context menus
MenuOptionName(option_id) ==
    CASE option_id = "add_input" -> "Add Input..."
      [] option_id = "add_output" -> "Add Output..."
      [] option_id = "add_plugin" -> "Add Plugin..."
      [] option_id = "file" -> "File..."

\* The context menu of a link, with the plugin option offered on every link
LinkMenuAlwaysPlugin(from_id, to_id) ==
    Menu(<<"link", from_id, to_id>>,
         (IF from_id = "inputs" THEN <<"add_input">> ELSE <<>>)
         \o (IF to_id = "outputs" THEN <<"add_output">> ELSE <<>>)
         \o <<"add_plugin">>
         \o <<"file">>)

\* The context menu of a link
LinkMenu(from_id, to_id) ==
    Menu(<<"link", from_id, to_id>>,
         (IF from_id = "inputs" THEN <<"add_input">> ELSE <<>>)
         \o (IF to_id = "outputs" THEN <<"add_output">> ELSE <<>>)
         \o (IF from_id # "inputs" THEN <<"add_plugin">> ELSE <<>>)
         \o <<"file">>)

NodeMenu == Menu(<<"node_menu">>, <<"file">>)

\* Controller::process_event_navigating_state
process_event_navigating_state(c, event) ==
    IF event.type # "ControlChange" \/ base_control_config = {} THEN {c}
    ELSE LET config == UnwrapOr(base_control_config, LoadedConfig) IN
         IF Matches(config.main_knob, event)
         THEN CtlKnob(c, "main", "Main", event.value)
         ELSE IF Matches(config.secondary_knob, event)
         THEN CtlKnob(c, "secondary", "Secondary", event.value)
         ELSE IF Matches(config.selection_button, event) /\ event.value > 0
         THEN LET element == select(c.ui) IN
              IF element = NoFocus THEN {c}
              ELSE LET menu == IF element.tag = "Link"
                               THEN LinkMenu(element.from_id, element.to_id)
                               ELSE NodeMenu
                   IN  {[c EXCEPT !.element = {element},
                                  !.ui = open_menu(c.ui, menu).s,
                                  !.state = "BrowsingMenu"]}
         ELSE IF Matches(config.back_button, event) /\ event.value > 0
         THEN {[c EXCEPT !.ui = close_menu(c.ui).s]}
         ELSE {c}

\* ------------------------------------------------------------------------
\* Features (src/src/controller/feature)
\* ------------------------------------------------------------------------
Features == {"input", "output", "plugin", "persistence"}

\* The menu state each feature is created with
NewFeatureStates ==
    [f \in Features |->
        CASE f \in {"input", "output"} -> <<"PortTypeSelection">>
          [] f = "plugin" -> <<"PluginSelection">>
          [] f = "persistence" -> <<"FileMenu">>]

\* JACK has one client with one port in each direction, the engine lists one
\* plugin, and the store holds no saved session or one session, saved from
\* the empty graph under one timestamp.
EndpointOption(f) == IF f = "input" THEN "source_system" ELSE "destination_system"
PortOption == "port_system:1"
PluginOption == "plugin_1"
SessionOption == "mnemonic_1"
TimestampOption == "timestamp_1"

\* SystemFeature::get_port_type_menu
get_port_type_menu(f) == Menu(<<f, "port_type">>, <<"type_audio", "type_midi">>)

\* Feature::get_menu: the possible menus. A system feature falls back to
\* the port type menu when the driver cannot list the endpoints.
get_menu(f, st) ==
    CASE f \in {"input", "output"} /\ st[1] = "PortTypeSelection" -> {get_port_type_menu(f)}
      [] f \in {"input", "output"} /\ st[1] = "EndpointList" ->
            {Menu(<<f, "endpoints">>, <<EndpointOption(f)>>), get_port_type_menu(f)}
      [] f \in {"input", "output"} /\ st[1] = "PortList" ->
            {Menu(<<f, "ports", st[3]>>, <<PortOption>>), get_port_type_menu(f)}
      [] f = "plugin" -> {Menu(<<"plugin_selection">>, <<PluginOption>>)}
      [] f = "persistence" /\ st[1] = "FileMenu" -> {Menu(<<"file_menu">>, <<"save", "load">>)}
      [] f = "persistence" /\ st[1] = "LoadSelection" ->
            {Menu(<<"load_selection">>, <<>>), Menu(<<"load_selection">>, <<SessionOption>>)}
      [] f = "persistence" /\ st[1] = "TimestampSelection" ->
            {Menu(<<"timestamp_selection", st[2]>>, <<>>),
             Menu(<<"timestamp_selection", st[2]>>, <<TimestampOption>>)}

\* What handle_menu_option leaves: the controller and graph model, and the
\* state returned ("Err": an error)
Handled(c, next) == [c |-> c, next |-> next]

SetMenuState(c, f, st) == [c EXCEPT !.fstate[f] = st]

\* The link a new node is put on: the link of the element, or the sentinel
\* link when the element is none or a port link
PortLinkOf(element) ==
    LET e == UnwrapOr(element, NoFocus)
    IN  IF e.tag = "Link" /\ e.link_type \notin {"PortIn", "PortOut"}
        THEN <<e.from_id, e.to_id>>
        ELSE <<"inputs", "outputs">>

\* The node of the port that the feature lists: its id is the path of the
\* engine port, named after the JACK port
PortNode(f) == IF f = "input" THEN "n1" ELSE "n3"

\* SystemFeature::handle_menu_option with a port selected: the engine port
\* and the JACK connection are made (either can fail), the node is
\* inserted, and the engine connections are made (each can fail)
AddSystemPort(c, f, element) ==
    LET link == PortLinkOf(element)
        r == insert_node(c.ui, PortNode(f), IF f = "input" THEN "PortIn" ELSE "PortOut",
                         link[1], link[2])
        c1 == [c EXCEPT !.ui = r.s]
    IN  {Handled(c, "Err")}
        \cup (IF ~r.ok THEN {Handled(c1, "Err")}
              ELSE {Handled(SetMenuState(c1, f, <<"PortTypeSelection">>), "Navigating")}
                   \cup (IF link[1] # "inputs" \/ link[2] # "outputs"
                         THEN {Handled(c1, "Err")} ELSE {}))

\* SystemFeature::handle_menu_option
handle_system_option(c, f, option, element) ==
    LET st == c.fstate[f]
        id == UnwrapOr(option, "")
    IN  IF option = {}
        THEN CASE st[1] = "PortTypeSelection" -> {Handled(c, "Navigating")}
               [] st[1] = "EndpointList" ->
                     {Handled(SetMenuState(c, f, <<"PortTypeSelection">>), "BrowsingMenu")}
               [] st[1] = "PortList" ->
                     {Handled(SetMenuState(c, f, <<"EndpointList", st[2]>>), "BrowsingMenu")}
        ELSE CASE st[1] = "PortTypeSelection" ->
                     IF id \in {"type_audio", "type_midi"}
                     THEN {Handled(SetMenuState(c, f, <<"EndpointList", id>>), "BrowsingMenu")}
                     ELSE {Handled(c, "Navigating")}
               [] st[1] = "EndpointList" ->
                     IF id = EndpointOption(f)
                     THEN {Handled(SetMenuState(c, f, <<"PortList", st[2], id>>), "BrowsingMenu")}
                     ELSE {Handled(SetMenuState(c, f, <<"PortTypeSelection">>), "Navigating")}
               [] st[1] = "PortList" ->
                     IF id = PortOption
                     THEN AddSystemPort(c, f, element)
                     ELSE {Handled(SetMenuState(c, f, <<"PortTypeSelection">>), "Navigating")}

\* PluginFeature::handle_menu_option
handle_plugin_option(c, option, element) ==
    LET c0 == IF c.plugin_element = {} /\ element # {}
              THEN [c EXCEPT !.plugin_element = element] ELSE c
        e == UnwrapOr(c0.plugin_element, NoFocus)
        r == insert_node(c0.ui, "n2", "Normal", e.from_id, e.to_id)
        c1 == [c0 EXCEPT !.ui = r.s]
    IN  IF option = {} THEN {Handled(c0, "Navigating")}
        ELSE IF e.tag # "Link" THEN {Handled(c0, "Err")}
        ELSE {Handled(c0, "Err")}
             \cup (IF ~r.ok THEN {Handled(c1, "Err")}
                   ELSE {Handled([c1 EXCEPT !.plugin_element = {}], "Navigating")}
                        \cup (IF e.from_id \notin {"inputs", "outputs"}
                                 \/ e.to_id \notin {"inputs", "outputs"}
                              THEN {Handled(c1, "Err")} ELSE {}))

\* PersistenceFeature::handle_menu_option (save_state can fail; load_state
\* can fail, and the session it loads has no block, port or connection, so
\* load_ui_graph adds nothing to the graph model)
handle_persistence_option(c, option) ==
    LET st == c.fstate["persistence"]
        id == UnwrapOr(option, "")
    IN  IF option = {}
        THEN {Handled(SetMenuState(c, "persistence", <<"FileMenu">>), "Navigating")}
        ELSE CASE st[1] = "FileMenu" ->
                     IF id = "save" THEN {Handled(c, "Err"), Handled(c, "Navigating")}
                     ELSE IF id = "load"
                     THEN {Handled(SetMenuState(c, "persistence", <<"LoadSelection">>),
                                   "BrowsingMenu")}
                     ELSE {Handled(c, "Navigating")}
               [] st[1] = "LoadSelection" ->
                     {Handled(SetMenuState(c, "persistence", <<"TimestampSelection", id>>),
                              "BrowsingMenu")}
               [] st[1] = "TimestampSelection" ->
                     {Handled(c, "Err"),
                      Handled(SetMenuState(c, "persistence", <<"FileMenu">>), "Navigating")}

\* Feature::handle_menu_option of the feature f
handle_menu_option(c, f, option, element) ==
    CASE f \in {"input", "output"} -> handle_system_option(c, f, option, element)
      [] f = "plugin" -> handle_plugin_option(c, option, element)
      [] f = "persistence" -> handle_persistence_option(c, option)

\* The feature that an option of the context menus starts
FeatureOfOption(option_id) ==
    CASE option_id = "add_input" -> "input"
      [] option_id = "add_output" -> "output"
      [] option_id = "add_plugin" -> "plugin"
      [] option_id = "file" -> "persistence"

\* self.ui.open_menu(feature.get_menu()) for the current feature
OpenFeatureMenu(c) ==
    LET f == UnwrapOr(c.feature, "input")
    IN  IF c.feature = {} THEN {c}
        ELSE {[c EXCEPT !.ui = open_menu(c.ui, menu).s] : menu \in get_menu(f, c.fstate[f])}

\* process_event_browsing_menu_state, the selection button pressed
BrowsingSelect(c) ==
    LET element == select(c.ui)
        option_id == element.to_id
    IN  IF element.tag # "MenuOption" THEN {c}
        ELSE IF option_id \in {"add_input", "add_output", "add_plugin", "file"}
        THEN OpenFeatureMenu([c EXCEPT !.feature = {FeatureOfOption(option_id)}])
        ELSE LET handled == IF c.feature = {} THEN {Handled(c, "Navigating")}
                            ELSE handle_menu_option(c, UnwrapOr(c.feature, "input"),
                                                    {option_id}, c.element)
             IN  UNION {CASE h.next = "Err" -> {[h.c EXCEPT !.err = TRUE]}
                          [] h.next = "BrowsingMenu" -> OpenFeatureMenu(h.c)
                          [] h.next = "Navigating" ->
                                {[h.c EXCEPT !.ui = close_all_menus(h.c.ui).s,
                                             !.feature = {}, !.element = {},
                                             !.state = "Navigating"]}
                          [] OTHER -> {[h.c EXCEPT !.state = h.next]}
                        : h \in handled}

\* process_event_browsing_menu_state, the back button pressed
BrowsingBack(c) ==
    LET r == back(c.ui)
        c1 == [c EXCEPT !.ui = r.s]
    IN  IF r.ok
        THEN IF menu_stack_size(r.s) = 0
             THEN {[c1 EXCEPT !.feature = {}, !.state = "Navigating"]}
             ELSE {c1}
        ELSE IF c.feature = {} THEN {[c1 EXCEPT !.element = {}]}
        ELSE {IF h.next = "Err" THEN [h.c EXCEPT !.err = TRUE]
              ELSE [h.c EXCEPT !.element = {}]
              : h \in handle_menu_option(c1, UnwrapOr(c.feature, "input"), {}, c.element)}

\* Controller::process_event_browsing_menu_state
process_event_any_state(c, event) ==
    process_event_navigating_state(c, event)

process_event_browsing_menu_state(c, event) ==
    IF event.type # "ControlChange" \/ base_control_config = {} THEN {c}
    ELSE LET config == UnwrapOr(base_control_config, LoadedConfig) IN
         IF Matches(config.main_knob, event)
         THEN CtlKnob(c, "main", "Main", event.value)
         ELSE IF Matches(config.selection_button, event) /\ event.value > 0
         THEN BrowsingSelect(c)
         ELSE IF Matches(config.back_button, event) /\ event.value > 0
         THEN BrowsingBack(c)
         ELSE {c}

\* Controller::process_midi_event
process_midi_event(c, event) ==
    CASE c.state = "Navigating" -> process_event_navigating_state(c, event)
      [] c.state = "BrowsingMenu" -> process_event_browsing_menu_state(c, event)
      [] OTHER -> {c}

CtlSet(c, event) ==
    /\ UiSet(c.ui, ui_call)
    /\ state' = c.state
    /\ main_knob_accumulator' = c.main
    /\ secondary_knob_accumulator' = c.secondary
    /\ current_feature' = c.feature
    /\ current_element' = c.element
    /\ feature_menu_state' = c.fstate
    /\ plugin_ui_element' = c.plugin_element
    /\ ctl_event' = [event |-> event, calls |-> c.calls, state |-> state, err |-> c.err]
    /\ UNCHANGED base_control_config

\* The controller after Controller::new found a stored config
CtlInit ==
    /\ state = "Navigating"
    /\ base_control_config = {LoadedConfig}
    /\ main_knob_accumulator = 0
    /\ secondary_knob_accumulator = 0
    /\ current_feature = {}
    /\ current_element = {}
    /\ feature_menu_state = NewFeatureStates
    /\ plugin_ui_element = {}
    /\ ctl_event = [event |-> [type |-> "None"], calls |-> <<>>, state |-> "Initializing",
                    err |-> FALSE]

LearningStates ==
    {"LearningSelectionKnob", "LearningSecondaryKnob",
     "LearningSelectionButton", "LearningBackButton"}

\* The events of a session at the menus: the main knob turned forward and
\* the two buttons
MenuEvents ==
    {ControlChange(0, 7, 0)}
    \cup {ControlChange(0, cc, v) : cc \in {20, 21}, v \in ButtonValues}

\* The run loop takes one event from the queue and processes it
ProcessMenuEvent ==
    /\ state \notin LearningStates
    /\ \E event \in MenuEvents :
          \E c \in process_midi_event(CtlState, event) :
              /\ c.ui.visit <= MaxVisit
              /\ c.ui.order <= MaxOrder
              /\ CtlSet(c, event)
              /\ UNCHANGED <<eng_vars, aux_vars>>

\* The run loop takes one event from the queue and processes it, in a
\* session long enough for two nodes to be added from the menus
ProcessSessionEvent ==
    \E event \in MenuEvents :
        \E c \in process_midi_event(CtlState, event) :
            /\ c.ui.visit <= MaxVisit
            /\ c.ui.order <= MaxGraphOrder
            /\ CtlSet(c, event)
            /\ UNCHANGED <<eng_vars, aux_vars>>

\* The run loop takes one event from the queue and processes it (knobs)
ProcessMidiEvent ==
    \E event \in MidiEvents :
        /\ ~(/\ state = "BrowsingMenu"
             /\ Matches(LoadedConfig.selection_button, event)
             /\ event.value > 0)
        /\ \E c \in process_midi_event(CtlState, event) :
              /\ c.ui.visit <= MaxVisit
              /\ CtlSet(c, event)
              /\ UNCHANGED <<eng_vars, aux_vars>>

\* ------------------------------------------------------------------------
\* Engine transport: the socket, send_message and receive_message
\* ------------------------------------------------------------------------
Threads == {1, 2}

\* The stream is a sequence of tokens. A marker ("a ingen:BundleStart" or
\* "a ingen:BundleEnd" together with its patch:sequenceNumber "n") and the
\* content marker "a patch:Put" are one token each; Dot is '.', Space is
\* whitespace, Null is the zero byte the engine pads with. r is the request
\* the bytes answer (0: an unsolicited bundle).
Tok(k, r) == [k |-> k, r |-> r]

\* The engine's answer to request r: a bundle around one patch:Put
Response(r) ==
    <<Tok("BundleStart", r), Tok("Put", r), Tok("Dot", r),
      Tok("BundleEnd", r), Tok("Dot", r), Tok("Space", r), Tok("Null", r)>>

\* An unsolicited bundle that carries no content
Notification ==
    <<Tok("BundleStart", 0), Tok("BundleEnd", 0), Tok("Dot", 0),
      Tok("Space", 0), Tok("Null", 0)>>

\* Engine operations: a query sends and receives (get_raw_state, get_graph,
\* discover_plugins), a mutation only sends (create port, create block,
\* connect, disconnect)
OpKinds == {"query", "mutation"}

NoOp == [kind |-> "none", req |-> 0]
NoResult == [req |-> 0, status |-> "none", msg |-> <<>>]

IsNull(b) == b.k = "Null"
NotNull(b) == b.k # "Null"
\* for &byte in &temp_buf[..n] { if byte != 0 { buffer.push(byte) } }
FilterNull(bytes) == SelectSeq(bytes, NotNull)

Contains(bytes, k) == \E i \in 1..Len(bytes) : bytes[i].k = k

\* buffer_str.rfind('.'): the position of the last dot, 0 if there is none
RFindDot(bytes) ==
    IF Contains(bytes, "Dot")
    THEN CHOOSE i \in 1..Len(bytes) :
            bytes[i].k = "Dot" /\ \A j \in (i + 1)..Len(bytes) : bytes[j].k # "Dot"
    ELSE 0

\* the last dot is followed by whitespace only: after_dot.trim().is_empty()
AtBoundary(bytes) ==
    /\ RFindDot(bytes) > 0
    /\ \A j \in (RFindDot(bytes) + 1)..Len(bytes) : bytes[j].k = "Space"

EngInit ==
    /\ engine_out = <<>>
    /\ wire = <<>>
    /\ read_buffer = <<>>
    /\ socket_lock = {}
    /\ pc = [t \in Threads |-> "idle"]
    /\ op = [t \in Threads |-> NoOp]
    /\ buffer = [t \in Threads |-> <<>>]
    /\ bundle_start_seq = [t \in Threads |-> FALSE]
    /\ found_bundle_end = [t \in Threads |-> FALSE]
    /\ result = [t \in Threads |-> NoResult]
    /\ next_request = 0
    /\ notifications = 0

\* A thread calls an engine operation; the message is built (and numbered)
\* before send_message is entered
Call(t) ==
    /\ t \in callers
    /\ pc[t] = "idle"
    /\ next_request < MaxRequests
    /\ \E kind \in OpKinds :
        op' = [op EXCEPT ![t] = [kind |-> kind, req |-> next_request + 1]]
    /\ next_request' = next_request + 1
    /\ pc' = [pc EXCEPT ![t] = "drain"]
    /\ UNCHANGED <<engine_out, wire, read_buffer, socket_lock, buffer, bundle_start_seq,
                   found_bundle_end, result, notifications, callers, prompt, ui_vars, ctl_vars, aux_vars>>

\* Engine::drain_response: under the socket lock, read and discard until a
\* read finds nothing, then clear read_buffer
drain_response(t) ==
    /\ pc[t] = "drain"
    /\ socket_lock = {}
    /\ wire' = <<>>
    /\ read_buffer' = <<>>
    /\ pc' = [pc EXCEPT ![t] = "write"]
    /\ UNCHANGED <<engine_out, socket_lock, op, buffer, bundle_start_seq,
                   found_bundle_end, result, next_request, notifications, callers, prompt, ui_vars, ctl_vars, aux_vars>>

\* Engine::send_message after the drain: the socket lock is taken again, the
\* message is written and flushed; the engine will answer it. A mutation
\* returns here, a query goes on to receive_message.
send_message(t) ==
    /\ pc[t] = "write"
    /\ socket_lock = {}
    /\ engine_out' = engine_out \o Response(op[t].req)
    /\ IF op[t].kind = "query"
       THEN /\ pc' = [pc EXCEPT ![t] = "receive"]
            /\ UNCHANGED result
       ELSE /\ pc' = [pc EXCEPT ![t] = "idle"]
            /\ result' = [result EXCEPT ![t] =
                            [req |-> op[t].req, status |-> "sent", msg |-> <<>>]]
    /\ UNCHANGED <<wire, read_buffer, socket_lock, op, buffer, bundle_start_seq,
                   found_bundle_end, next_request, notifications, callers, prompt, ui_vars, ctl_vars, aux_vars>>

\* Engine::receive_message, top of the outer loop: take the buffered bytes
receive_begin(t) ==
    /\ pc[t] = "receive"
    /\ buffer' = [buffer EXCEPT ![t] = read_buffer]
    /\ read_buffer' = <<>>
    /\ bundle_start_seq' = [bundle_start_seq EXCEPT ![t] = FALSE]
    /\ found_bundle_end' = [found_bundle_end EXCEPT ![t] = FALSE]
    /\ pc' = [pc EXCEPT ![t] = "read"]
    /\ UNCHANGED <<engine_out, wire, socket_lock, op, result, next_request,
                   notifications, callers, prompt, ui_vars, ctl_vars, aux_vars>>

\* receive_message with every completed message returned, content or not
receive_finish_unchecked(t, message) ==
    /\ socket_lock' = {}
    /\ result' = [result EXCEPT ![t] =
                    [req |-> op[t].req, status |-> "ok", msg |-> message]]
    /\ pc' = [pc EXCEPT ![t] = "idle"]

\* Engine::receive_message after the read loop: the socket guard is dropped;
\* a message without "a patch:Put" is ignored and the outer loop continues
receive_finish(t, message) ==
    /\ socket_lock' = {}
    /\ IF Contains(message, "Put")
       THEN /\ result' = [result EXCEPT ![t] =
                            [req |-> op[t].req, status |-> "ok", msg |-> message]]
            /\ pc' = [pc EXCEPT ![t] = "idle"]
       ELSE /\ result' = [result EXCEPT ![t] =
                            [req |-> op[t].req, status |-> "discarded", msg |-> message]]
            /\ pc' = [pc EXCEPT ![t] = "receive"]

\* receive_message, socket.read returns Ok(n): append the non-null bytes,
\* look for the markers, then for the final dot
receive_read(t) ==
    /\ pc[t] = "read"
    /\ socket_lock \subseteq {t}
    /\ wire # <<>>
    /\ LET buf == buffer[t] \o FilterNull(wire)
           start == bundle_start_seq[t] \/ Contains(buf, "BundleStart")
           end == found_bundle_end[t] \/ (start /\ Contains(buf, "BundleEnd"))
       IN  /\ buffer' = [buffer EXCEPT ![t] = buf]
           /\ bundle_start_seq' = [bundle_start_seq EXCEPT ![t] = start]
           /\ found_bundle_end' = [found_bundle_end EXCEPT ![t] = end]
           /\ pc' = [pc EXCEPT ![t] = IF end /\ AtBoundary(buf) THEN "peek" ELSE "read"]
    /\ wire' = <<>>
    /\ socket_lock' = {t}
    /\ UNCHANGED <<engine_out, read_buffer, op, result, next_request,
                   notifications, callers, prompt, ui_vars, ctl_vars, aux_vars>>

\* receive_read_timeout that reports every timeout as an error
receive_read_timeout_strict(t) ==
    /\ pc[t] = "read"
    /\ socket_lock \subseteq {t}
    /\ wire = <<>>
    /\ prompt => engine_out = <<>>
    /\ socket_lock' = {}
    /\ result' = [result EXCEPT ![t] =
                    [req |-> op[t].req, status |-> "timeout", msg |-> <<>>]]
    /\ pc' = [pc EXCEPT ![t] = "idle"]
    /\ UNCHANGED <<engine_out, wire, read_buffer, op, buffer, bundle_start_seq,
                   found_bundle_end, next_request, notifications, callers, prompt, ui_vars, ctl_vars, aux_vars>>

\* receive_message, socket.read times out (WouldBlock) after 30 s: with
\* bytes in the buffer the loop is left, with none the call fails
receive_read_timeout(t) ==
    /\ pc[t] = "read"
    /\ socket_lock \subseteq {t}
    /\ wire = <<>>
    /\ prompt => engine_out = <<>>
    /\ IF buffer[t] # <<>>
       THEN receive_finish(t, buffer[t])
       ELSE /\ socket_lock' = {}
            /\ result' = [result EXCEPT ![t] =
                            [req |-> op[t].req, status |-> "timeout", msg |-> <<>>]]
            /\ pc' = [pc EXCEPT ![t] = "idle"]
    /\ UNCHANGED <<engine_out, wire, read_buffer, op, buffer, bundle_start_seq,
                   found_bundle_end, next_request, notifications, callers, prompt, ui_vars, ctl_vars, aux_vars>>

\* receive_message at the response boundary: one byte is read with a 1 ms
\* timeout. A byte is folded into the buffer and reading goes on; no byte
\* ends the message at the dot and stashes what follows it in read_buffer.
receive_peek(t) ==
    /\ pc[t] = "peek"
    /\ socket_lock = {t}
    /\ IF wire # <<>>
       THEN /\ buffer' = [buffer EXCEPT ![t] =
                            IF IsNull(Head(wire)) THEN @ ELSE Append(@, Head(wire))]
            /\ wire' = Tail(wire)
            /\ pc' = [pc EXCEPT ![t] = "read"]
            /\ UNCHANGED <<read_buffer, socket_lock, result>>
       ELSE LET dot_byte_pos == RFindDot(buffer[t])
                remaining == SubSeq(buffer[t], dot_byte_pos + 1, Len(buffer[t]))
            IN  /\ read_buffer' = read_buffer \o remaining
                /\ buffer' = [buffer EXCEPT ![t] = SubSeq(@, 1, dot_byte_pos)]
                /\ receive_finish(t, SubSeq(buffer[t], 1, dot_byte_pos))
                /\ UNCHANGED wire
    /\ UNCHANGED <<engine_out, op, bundle_start_seq, found_bundle_end, next_request,
                   notifications, callers, prompt, ui_vars, ctl_vars, aux_vars>>

\* The engine puts the next byte of its output on the socket
EngineDeliver ==
    /\ engine_out # <<>>
    /\ wire' = Append(wire, Head(engine_out))
    /\ engine_out' = Tail(engine_out)
    /\ UNCHANGED <<read_buffer, socket_lock, pc, op, buffer, bundle_start_seq,
                   found_bundle_end, result, next_request, notifications, callers, prompt, ui_vars, ctl_vars, aux_vars>>

\* The engine sends an unsolicited bundle
EngineNotify ==
    /\ notifications < MaxNotifications
    /\ notifications' = notifications + 1
    /\ engine_out' = engine_out \o Notification
    /\ UNCHANGED <<wire, read_buffer, socket_lock, pc, op, buffer, bundle_start_seq,
                   found_bundle_end, result, next_request, callers, prompt, ui_vars, ctl_vars, aux_vars>>

EngNext ==
    \/ \E t \in Threads : Call(t)
    \/ \E t \in Threads : drain_response(t)
    \/ \E t \in Threads : send_message(t)
    \/ \E t \in Threads : receive_begin(t)
    \/ \E t \in Threads : receive_read(t)
    \/ \E t \in Threads : receive_read_timeout(t)
    \/ \E t \in Threads : receive_peek(t)
    \/ EngineDeliver
    \/ EngineNotify

\* The engine transport unused: the state of the other specifications
EngIdle == EngInit /\ callers = {} /\ prompt = TRUE

\* ------------------------------------------------------------------------
\* Message builder: sequence numbers (src/src/engine/protocol.rs)
\* ------------------------------------------------------------------------
\* 2^16: SEQUENCE_NUMBER is an AtomicU32, held here as two 16-bit halves
U16 == 65536

\* AtomicU32::fetch_add(1): the value after the call (wraps at 2^32)
fetch_add(n) ==
    IF n[2] + 1 < U16 THEN <<n[1], n[2] + 1>>
    ELSE IF n[1] + 1 < U16 THEN <<n[1] + 1, 0>>
    ELSE <<0, 0>>

\* a < b for two u32 values
U32Less(a, b) == a[1] < b[1] \/ (a[1] = b[1] /\ a[2] < b[2])

\* The build_* functions that end in serialize_graph
MessageKinds == {"create_port", "create_block", "connect", "disconnect", "get"}

\* Numbers of messages the process has built before the ones observed:
\* none, and 2^32 - 2
BuiltBefore == {<<0, 0>>, <<U16 - 1, U16 - 2>>}

SeqInit ==
    /\ SEQUENCE_NUMBER \in BuiltBefore
    /\ seq_pc = [t \in Threads |-> "idle"]
    /\ seq_num = [t \in Threads |-> <<0, 0>>]
    /\ seq_kind = [t \in Threads |-> "none"]
    /\ seq_built = <<>>
    /\ seq_messages = <<>>

\* A thread calls a build_* function, which builds its graph
Build(t) ==
    /\ seq_pc[t] = "idle"
    /\ Len(seq_built) + Cardinality({u \in Threads : seq_pc[u] = "graph"}) < MaxBuilds
    /\ \E kind \in MessageKinds : seq_kind' = [seq_kind EXCEPT ![t] = kind]
    /\ seq_pc' = [seq_pc EXCEPT ![t] = "graph"]
    /\ UNCHANGED <<SEQUENCE_NUMBER, seq_num, seq_built, seq_messages,
                   ui_vars, ctl_vars, eng_vars, conn_vars, cal_vars, rt_vars, loop_vars, torn_vars, lock_vars, state_vars>>

\* serialize_graph: let seq_num = SEQUENCE_NUMBER.fetch_add(1, SeqCst)
serialize_graph_fetch(t) ==
    /\ seq_pc[t] = "graph"
    /\ seq_num' = [seq_num EXCEPT ![t] = SEQUENCE_NUMBER]
    /\ SEQUENCE_NUMBER' = fetch_add(SEQUENCE_NUMBER)
    /\ seq_built' = Append(seq_built, SEQUENCE_NUMBER)
    /\ seq_pc' = [seq_pc EXCEPT ![t] = "numbered"]
    /\ UNCHANGED <<seq_kind, seq_messages, ui_vars, ctl_vars, eng_vars, conn_vars, cal_vars, rt_vars, loop_vars, torn_vars, lock_vars, state_vars>>

\* serialize_graph: the number is inserted and the graph is serialized
serialize_graph_return(t) ==
    /\ seq_pc[t] = "numbered"
    /\ seq_messages' = Append(seq_messages,
                              [kind |-> seq_kind[t], sequenceNumber |-> seq_num[t]])
    /\ seq_pc' = [seq_pc EXCEPT ![t] = "idle"]
    /\ UNCHANGED <<SEQUENCE_NUMBER, seq_num, seq_kind, seq_built,
                   ui_vars, ctl_vars, eng_vars, conn_vars, cal_vars, rt_vars, loop_vars, torn_vars, lock_vars, state_vars>>

SeqNext ==
    \/ \E t \in Threads : Build(t)
    \/ \E t \in Threads : serialize_graph_fetch(t)
    \/ \E t \in Threads : serialize_graph_return(t)

\* No message is being built: the state of the other specifications
SeqIdle == SeqInit /\ SEQUENCE_NUMBER = <<0, 0>>

\* ------------------------------------------------------------------------
\* Engine startup: connect_socket (src/src/engine/mod.rs)
\* ------------------------------------------------------------------------
max_attempts == 10

ConnInit ==
    /\ conn_pc = "connect"
    /\ attempts = 0
    /\ conn_log = <<>>
    /\ conn_written = <<>>

\* connect_socket with the initialization message left out
connect_ok_silent ==
    /\ conn_pc = "connect"
    /\ conn_log' = Append(conn_log, [e |-> "connected", ms |-> 0])
    /\ conn_written' = conn_written
    /\ conn_pc' = "connected"
    /\ UNCHANGED attempts

\* UnixStream::connect succeeds: the stream is stored and the
\* initialization message is sent; connect_socket returns Ok
connect_ok ==
    /\ conn_pc = "connect"
    /\ conn_log' = Append(conn_log, [e |-> "connected", ms |-> 0])
    /\ conn_written' = Append(conn_written, "init")
    /\ conn_pc' = "connected"
    /\ UNCHANGED attempts

ConnectOk == connect_ok /\ UNCHANGED <<ui_vars, ctl_vars, eng_vars, seq_vars, cal_vars, rt_vars, loop_vars, torn_vars, lock_vars, state_vars>>

\* UnixStream::connect fails: count the attempt, give up at max_attempts,
\* otherwise go to sleep
ConnectErr ==
    /\ conn_pc = "connect"
    /\ attempts' = attempts + 1
    /\ conn_log' = Append(conn_log, [e |-> "refused", ms |-> 0])
    /\ conn_pc' = IF attempts + 1 >= max_attempts THEN "failed" ELSE "sleep"
    /\ UNCHANGED <<conn_written, ui_vars, ctl_vars, eng_vars, seq_vars, cal_vars, rt_vars, loop_vars, torn_vars, lock_vars, state_vars>>

\* thread::sleep(Duration::from_millis(200)), then the loop tries again
ConnectSleep ==
    /\ conn_pc = "sleep"
    /\ conn_log' = Append(conn_log, [e |-> "sleep", ms |-> 200])
    /\ conn_pc' = "connect"
    /\ UNCHANGED <<attempts, conn_written, ui_vars, ctl_vars, eng_vars, seq_vars, cal_vars, rt_vars, loop_vars, torn_vars, lock_vars, state_vars>>

\* An engine operation after Engine::new has returned the engine: its
\* message is written to the socket
ConnectedWrite ==
    /\ conn_pc = "connected"
    /\ Len(conn_written) <= MaxWrites
    /\ \E kind \in MessageKinds : conn_written' = Append(conn_written, kind)
    /\ UNCHANGED <<conn_pc, attempts, conn_log, ui_vars, ctl_vars, eng_vars, seq_vars, cal_vars, rt_vars, loop_vars, torn_vars, lock_vars, state_vars>>

ConnNext ==
    \/ ConnectOk
    \/ ConnectErr
    \/ ConnectSleep
    \/ ConnectedWrite

\* The engine connected at the first attempt: the state of the other
\* specifications
ConnIdle ==
    /\ conn_pc = "connected"
    /\ attempts = 0
    /\ conn_log = <<[e |-> "connected", ms |-> 0]>>
    /\ conn_written = <<"init">>

\* ------------------------------------------------------------------------
\* Calibration (src/src/controller/init.rs)
\* ------------------------------------------------------------------------
\* Events fed to the controller while it learns
CalibrationEvents ==
    {ControlChange(ch, cc, v) : ch \in {0, 1}, cc \in {7, 10, 20, 21}, v \in {0, 127}}
    \cup {[type |-> "ProgramChange", channel |-> 0, control |-> 7, value |-> 0]}

\* serde_json::to_string_pretty(config): the fields in declaration order,
\* each assignment as its own object of three fields
to_string_pretty(config) ==
    LET assignment(a) == << <<"channel", a.channel>>, <<"control", a.control>>,
                            <<"control_type", a.control_type>> >>
    IN  << <<"main_knob", assignment(config.main_knob)>>,
           <<"secondary_knob", assignment(config.secondary_knob)>>,
           <<"selection_button", assignment(config.selection_button)>>,
           <<"back_button", assignment(config.back_button)>> >>

\* The value of a field of a JSON object, looked up by name
JsonField(object, name) ==
    LET i == CHOOSE i \in 1..Len(object) : object[i][1] = name
    IN  object[i][2]

\* serde_json::from_str::<BaseControlConfig>(content)
from_str(content) ==
    LET assignment(o) == MidiAssignment(JsonField(o, "channel"), JsonField(o, "control"),
                                        JsonField(o, "control_type"))
    IN  [main_knob |-> assignment(JsonField(content, "main_knob")),
         secondary_knob |-> assignment(JsonField(content, "secondary_knob")),
         selection_button |-> assignment(JsonField(content, "selection_button")),
         back_button |-> assignment(JsonField(content, "back_button"))]

\* save_config writing the config as it was before the last assignment
save_config_stale(file, old_config, config) ==
    IF config # {} THEN {to_string_pretty(UnwrapOr(old_config, LoadedConfig))} ELSE file

\* Controller::save_config: the file afterwards
save_config(file, old_config, config) ==
    IF config # {} THEN {to_string_pretty(UnwrapOr(config, LoadedConfig))} ELSE file

\* The outcome of a learn_* call: the state, the config, the file, and
\* whether the event was learned
Learnt(st, config, file, accepted) ==
    [state |-> st, config |-> config, file |-> file, accepted |-> accepted, err |-> FALSE]

\* Controller::learn_main_knob
learn_main_knob(config, file, event) ==
    IF event.type # "ControlChange" THEN Learnt("LearningSelectionKnob", config, file, FALSE)
    ELSE LET assignment == MidiAssignment(event.channel, event.control, "Knob")
         IN  Learnt("LearningSecondaryKnob",
                    IF config = {}
                    THEN {[main_knob |-> assignment, secondary_knob |-> assignment,
                           selection_button |-> assignment, back_button |-> assignment]}
                    ELSE {[UnwrapOr(config, LoadedConfig) EXCEPT !.main_knob = assignment]},
                    file, TRUE)

\* learn_secondary_knob going on to the back button
learn_secondary_knob_skipping(config, file, event) ==
    IF event.type # "ControlChange" THEN Learnt("LearningSecondaryKnob", config, file, FALSE)
    ELSE IF config # {} /\ Matches(UnwrapOr(config, LoadedConfig).main_knob, event)
    THEN Learnt("LearningSecondaryKnob", config, file, FALSE)
    ELSE Learnt("LearningBackButton",
                {[c EXCEPT !.secondary_knob =
                     MidiAssignment(event.channel, event.control, "Knob")] : c \in config},
                file, TRUE)

\* Controller::learn_secondary_knob
learn_secondary_knob(config, file, event) ==
    IF event.type # "ControlChange" THEN Learnt("LearningSecondaryKnob", config, file, FALSE)
    ELSE IF config # {} /\ Matches(UnwrapOr(config, LoadedConfig).main_knob, event)
    THEN Learnt("LearningSecondaryKnob", config, file, FALSE)
    ELSE Learnt("LearningSelectionButton",
                {[c EXCEPT !.secondary_knob =
                     MidiAssignment(event.channel, event.control, "Knob")] : c \in config},
                file, TRUE)

\* learn_selection_button comparing with the main knob only
learn_selection_button_lenient(config, file, event) ==
    IF event.type # "ControlChange" THEN Learnt("LearningSelectionButton", config, file, FALSE)
    ELSE IF config # {} /\ Matches(UnwrapOr(config, LoadedConfig).main_knob, event)
    THEN Learnt("LearningSelectionButton", config, file, FALSE)
    ELSE Learnt("LearningBackButton",
                {[c EXCEPT !.selection_button =
                     MidiAssignment(event.channel, event.control, "Button")] : c \in config},
                file, TRUE)

\* Controller::learn_selection_button
learn_selection_button(config, file, event) ==
    IF event.type # "ControlChange" THEN Learnt("LearningSelectionButton", config, file, FALSE)
    ELSE IF /\ config # {}
            /\ \/ Matches(UnwrapOr(config, LoadedConfig).main_knob, event)
               \/ Matches(UnwrapOr(config, LoadedConfig).secondary_knob, event)
    THEN Learnt("LearningSelectionButton", config, file, FALSE)
    ELSE Learnt("LearningBackButton",
                {[c EXCEPT !.selection_button =
                     MidiAssignment(event.channel, event.control, "Button")] : c \in config},
                file, TRUE)

\* Controller::learn_back_button: the possible outcomes (the config is
\* saved before the state changes, and a write that fails returns the error
\* with the assignment already set; the display update that follows the
\* change of state changes no state)
learn_back_button(config, file, event) ==
    IF event.type # "ControlChange" THEN {Learnt("LearningBackButton", config, file, FALSE)}
    ELSE IF /\ config # {}
            /\ \/ Matches(UnwrapOr(config, LoadedConfig).main_knob, event)
               \/ Matches(UnwrapOr(config, LoadedConfig).secondary_knob, event)
               \/ Matches(UnwrapOr(config, LoadedConfig).selection_button, event)
    THEN {Learnt("LearningBackButton", config, file, FALSE)}
    ELSE LET new_config ==
                {[c EXCEPT !.back_button =
                     MidiAssignment(event.channel, event.control, "Button")] : c \in config}
         IN  {Learnt("Navigating", new_config, save_config(file, config, new_config), TRUE),
              [Learnt("LearningBackButton", new_config, file, FALSE) EXCEPT !.err = TRUE]}

\* Controller::process_midi_event in the learning states: the possible
\* outcomes
learn(st, config, file, event) ==
    CASE st = "LearningSelectionKnob" -> {learn_main_knob(config, file, event)}
      [] st = "LearningSecondaryKnob" -> {learn_secondary_knob(config, file, event)}
      [] st = "LearningSelectionButton" -> {learn_selection_button(config, file, event)}
      [] st = "LearningBackButton" -> learn_back_button(config, file, event)

\* The run loop takes one event while the controller learns
LearnMidiEvent ==
    /\ state \in LearningStates
    /\ \E event \in CalibrationEvents :
          \E r \in learn(state, base_control_config, config_file, event) :
              /\ state' = r.state
              /\ base_control_config' = r.config
              /\ config_file' = r.file
              /\ learned' = IF ~r.accepted THEN learned
                            ELSE IF state = "LearningSelectionKnob"
                            THEN <<(<<event.channel, event.control>>)>>
                            ELSE Append(learned, <<event.channel, event.control>>)
              /\ ctl_event' = [event |-> event, calls |-> <<>>, state |-> state, err |-> r.err]
    /\ UNCHANGED <<main_knob_accumulator, secondary_knob_accumulator, current_feature,
                   current_element, feature_menu_state, plugin_ui_element, startup, ui_vars, eng_vars, seq_vars, conn_vars, rt_vars, loop_vars, torn_vars, lock_vars, state_vars>>

\* Controller::initialize: the state and the config it leaves, and the file
initialize(force_init, file) ==
    IF force_init
    THEN [state |-> "LearningSelectionKnob", config |-> {}, file |-> {}]
    ELSE IF file # {}
    THEN [state |-> "Navigating", config |-> {from_str(UnwrapOr(file, <<>>))}, file |-> file]
    ELSE [state |-> "LearningSelectionKnob", config |-> {}, file |-> file]

\* The process is started (again): Controller::new with either flag
Startup ==
    /\ startup.n < MaxStartups
    /\ \E force_init \in BOOLEAN :
          LET r == initialize(force_init, config_file)
          IN  /\ state' = r.state
              /\ base_control_config' = r.config
              /\ config_file' = r.file
              /\ startup' = [n |-> startup.n + 1, force_init |-> force_init,
                             calibrated |-> state = "Navigating",
                             loaded |-> r.state = "Navigating"]
    /\ main_knob_accumulator' = 0
    /\ secondary_knob_accumulator' = 0
    /\ current_feature' = {}
    /\ current_element' = {}
    /\ feature_menu_state' = NewFeatureStates
    /\ plugin_ui_element' = {}
    /\ ctl_event' = [event |-> [type |-> "None"], calls |-> <<>>, state |-> "Initializing",
                     err |-> FALSE]
    /\ UNCHANGED <<learned, ui_vars, eng_vars, seq_vars, conn_vars, rt_vars, loop_vars, torn_vars, lock_vars, state_vars>>

CalNext ==
    \/ LearnMidiEvent
    \/ Startup

\* The first start of the process, with no config stored
CalInit ==
    /\ state = "LearningSelectionKnob"
    /\ base_control_config = {}
    /\ main_knob_accumulator = 0
    /\ secondary_knob_accumulator = 0
    /\ current_feature = {}
    /\ current_element = {}
    /\ feature_menu_state = NewFeatureStates
    /\ plugin_ui_element = {}
    /\ ctl_event = [event |-> [type |-> "None"], calls |-> <<>>, state |-> "Initializing",
                    err |-> FALSE]
    /\ config_file = {}
    /\ learned = <<>>
    /\ startup = [n |-> 1, force_init |-> FALSE, calibrated |-> FALSE, loaded |-> FALSE]

\* A first start in which the two knobs and the selection button have been
\* learned and the back button is asked for
BackButtonLeft ==
    /\ state = "LearningBackButton"
    /\ base_control_config = {[LoadedConfig EXCEPT !.back_button = LoadedConfig.main_knob]}
    /\ main_knob_accumulator = 0
    /\ secondary_knob_accumulator = 0
    /\ current_feature = {}
    /\ current_element = {}
    /\ feature_menu_state = NewFeatureStates
    /\ plugin_ui_element = {}
    /\ ctl_event = [event |-> ControlChange(0, 20, 127), calls |-> <<>>,
                    state |-> "LearningSelectionButton", err |-> FALSE]
    /\ config_file = {}
    /\ learned = <<(<<0, 7>>), (<<0, 10>>), (<<0, 20>>)>>
    /\ startup = [n |-> 1, force_init |-> FALSE, calibrated |-> FALSE, loaded |-> FALSE]

\* A start that loaded the stored config: the state of the other
\* specifications
CalIdle ==
    /\ config_file = {to_string_pretty(LoadedConfig)}
    /\ learned = <<>>
    /\ startup = [n |-> 1, force_init |-> FALSE, calibrated |-> FALSE, loaded |-> TRUE]

\* ------------------------------------------------------------------------
\* Protocol round trip (src/src/engine/protocol.rs)
\* ------------------------------------------------------------------------
\* RDF terms. An IRI is the sequence of its parts: a namespace and a local
\* name, or a path alone.
Iri(parts) == [k |-> "iri", v |-> parts]
BlankNode(id) == [k |-> "bnode", v |-> <<"bt", id>>]
LiteralDatatype(lex, datatype) == [k |-> "literal", v |-> <<lex, datatype>>]

\* The prefixes that parse_response puts in front of the data
Prefixes ==
    [ingen |-> "http://drobilla.net/ns/ingen#",
     patch |-> "http://lv2plug.in/ns/ext/patch#",
     lv2 |-> "http://lv2plug.in/ns/lv2core#",
     rdf |-> "http://www.w3.org/1999/02/22-rdf-syntax-ns#",
     xsd |-> "http://www.w3.org/2001/XMLSchema#"]

\* Namespace::get
Ns(prefix, local) == Iri(<<Prefixes[prefix], local>>)

\* IriRef::new_unchecked(path): the path is taken as it is
PathIri(path) == Iri(<<path>>)

\* Port paths as the engine facade makes them: "ingen:/main/" and a name
Paths == {"ingen:/main/in", "ingen:/main/out", "ingen:/main/fx/in", "ingen:/main/fx/out"}

\* Turtle tokens: <iri>, _:label, "lex"^^<datatype>, prefix:local, and "a"
TokIriRef(parts) == [t |-> "IRIREF", v |-> parts]
TokBlank(label) == [t |-> "BLANK", v |-> label]
TokLiteral(lex, datatype) == [t |-> "LITERAL", v |-> <<lex, datatype>>]
TokPName(prefix, local) == [t |-> "PNAME", v |-> <<prefix, local>>]
TokA == [t |-> "A", v |-> <<>>]

\* TurtleSerializer: one term as text (the serializer declares no prefixes)
write_term(term) ==
    CASE term.k = "iri" -> TokIriRef(term.v)
      [] term.k = "bnode" -> TokBlank(term.v)
      [] term.k = "literal" -> TokLiteral(term.v[1], term.v[2].v)

\* The Turtle parser: one token as a term
read_term(tok) ==
    CASE tok.t = "IRIREF" -> Iri(tok.v)
      [] tok.t = "BLANK" -> [k |-> "bnode", v |-> tok.v]
      [] tok.t = "LITERAL" -> LiteralDatatype(tok.v[1], Iri(tok.v[2]))
      [] tok.t = "PNAME" -> Ns(tok.v[1], tok.v[2])
      [] tok.t = "A" -> Ns("rdf", "type")

\* serialize_graph: the triples as statements, with the sequence number on
\* the root node
serialize_graph(graph, root_node, seq) ==
    LET graph_with_seq ==
            Append(graph, <<root_node, Ns("patch", "sequenceNumber"),
                            LiteralDatatype(seq, Ns("xsd", "int"))>>)
    IN  [i \in 1..Len(graph_with_seq) |->
            <<write_term(graph_with_seq[i][1]), write_term(graph_with_seq[i][2]),
              write_term(graph_with_seq[i][3])>>]

\* build_connect with head and tail exchanged
build_connect_reversed(source, destination, counter, seq) ==
    LET arc_node == BlankNode(counter)
        put_node == BlankNode(counter + 1)
    IN  serialize_graph(
            << <<arc_node, Ns("rdf", "type"), Ns("ingen", "Arc")>>,
               <<arc_node, Ns("ingen", "head"), PathIri(source)>>,
               <<arc_node, Ns("ingen", "tail"), PathIri(destination)>>,
               <<put_node, Ns("rdf", "type"), Ns("patch", "Put")>>,
               <<put_node, Ns("patch", "subject"), PathIri("ingen:/main/")>>,
               <<put_node, Ns("patch", "body"), arc_node>> >>,
            put_node, seq)

\* IngenProtocol::build_connect, with the two counters it reads
build_connect(source, destination, counter, seq) ==
    LET arc_node == BlankNode(counter)
        put_node == BlankNode(counter + 1)
    IN  serialize_graph(
            << <<arc_node, Ns("rdf", "type"), Ns("ingen", "Arc")>>,
               <<arc_node, Ns("ingen", "tail"), PathIri(source)>>,
               <<arc_node, Ns("ingen", "head"), PathIri(destination)>>,
               <<put_node, Ns("rdf", "type"), Ns("patch", "Put")>>,
               <<put_node, Ns("patch", "subject"), PathIri("ingen:/main/")>>,
               <<put_node, Ns("patch", "body"), arc_node>> >>,
            put_node, seq)

\* An arc as the engine itself writes it, with prefixed names and a blank
\* node of its own
EngineArc(label, source, destination) ==
    << <<TokBlank(<<"b", label>>), TokA, TokPName("ingen", "Arc")>>,
       <<TokBlank(<<"b", label>>), TokPName("ingen", "tail"), TokIriRef(<<source>>)>>,
       <<TokBlank(<<"b", label>>), TokPName("ingen", "head"), TokIriRef(<<destination>>)>> >>

\* What a response holds before the embedded arc
EngineContent ==
    {<<>>} \cup {EngineArc(1, src, dst) : src \in Paths, dst \in Paths}

\* parse_response: the statements as a set of triples
parse_response(turtle_data) ==
    {<<read_term(turtle_data[i][1]), read_term(turtle_data[i][2]),
       read_term(turtle_data[i][3])>> : i \in 1..Len(turtle_data)}

\* The IRI objects of the triples of a subject and a predicate, as text
IriObjects(graph, subject, predicate) ==
    {t[3].v[1] : t \in {x \in graph : /\ x[1] = subject /\ x[2] = predicate
                                      /\ x[3].k = "iri" /\ Len(x[3].v) = 1}}

\* IngenProtocol::parse_graph, the connections: for every ingen:Arc the
\* first tail and the first head found; the possible results
parse_graph(response) ==
    LET graph == parse_response(response)
        arcs == {t[1] : t \in {x \in graph : /\ x[2] = Ns("rdf", "type")
                                            /\ x[3] = Ns("ingen", "Arc")}}
        complete == {a \in arcs : /\ IriObjects(graph, a, Ns("ingen", "tail")) # {}
                                  /\ IriObjects(graph, a, Ns("ingen", "head")) # {}}
        choices == {f \in [complete -> Paths \X Paths] :
                       \A a \in complete :
                           /\ f[a][1] \in IriObjects(graph, a, Ns("ingen", "tail"))
                           /\ f[a][2] \in IriObjects(graph, a, Ns("ingen", "head"))}
    IN  {{[source |-> f[a][1], destination |-> f[a][2]] : a \in complete} : f \in choices}

\* ------------------------------------------------------------------------
\* The blocks and ports of the engine state (parse_graph)
\* ------------------------------------------------------------------------
\* A path is the sequence of its characters after the root "ingen:/main/",
\* which is kept as one piece in front
MainPrefix == "ingen:/main/"
MainPath(chars) == <<MainPrefix>> \o chars

\* The characters that the paths are made of, in the order of their codes
PathChars == <<"/", "2", "a", "i">>

CharCode(ch) == CHOOSE k \in 1..Len(PathChars) : PathChars[k] = ch

\* str::cmp on two texts without the root: the first difference decides,
\* and a proper prefix comes first
RECURSIVE StrLess(_, _)
StrLess(a, b) ==
    IF b = <<>> THEN FALSE
    ELSE IF a = <<>> THEN TRUE
    ELSE IF Head(a) # Head(b) THEN CharCode(Head(a)) < CharCode(Head(b))
    ELSE StrLess(Tail(a), Tail(b))

\* str::starts_with
starts_with(text, prefix) ==
    /\ Len(prefix) <= Len(text)
    /\ SubSeq(text, 1, Len(prefix)) = prefix

\* path.split('/').last(): what follows the last '/' (the root ends in one)
LastSegment(path) ==
    LET slashes == {i \in 1..Len(path) : path[i] \in {"/", MainPrefix}}
        last == IF slashes = {} THEN 0
                ELSE CHOOSE i \in slashes : \A j \in slashes : j <= i
    IN  SubSeq(path, last + 1, Len(path))

\* A patch:Put as the engine writes it in its state: the path as subject
\* and a body with the given types
EnginePut(label, path, types) ==
    << <<TokBlank(<<"put", label>>), TokA, TokPName("patch", "Put")>>,
       <<TokBlank(<<"put", label>>), TokPName("patch", "subject"), TokIriRef(<<path>>)>>,
       <<TokBlank(<<"put", label>>), TokPName("patch", "body"),
         TokBlank(<<"body", label>>)>> >>
    \o [i \in 1..Len(types) |->
          <<TokBlank(<<"body", label>>), TokA, TokPName(types[i][1], types[i][2])>>]

\* The bodies: a block, an audio input, a CV output, and the two partial
\* ports, one with a type and no direction and one with a direction and no
\* type
BlockBody == << <<"ingen", "Block">> >>
AudioInput == << <<"lv2", "AudioPort">>, <<"lv2", "InputPort">> >>
CvOutput == << <<"lv2", "CVPort">>, <<"lv2", "OutputPort">> >>
TypeOnly == << <<"lv2", "AudioPort">> >>
DirectionOnly == << <<"lv2", "OutputPort">> >>

\* What the engine puts: the blocks a and a2, the ports a/i and a/2 whole
\* or partial, and the port a2/i
EnginePuts ==
    {<<MainPath(<<"a">>), BlockBody>>,
     <<MainPath(<<"a", "2">>), BlockBody>>,
     <<MainPath(<<"a", "/", "i">>), AudioInput>>,
     <<MainPath(<<"a", "/", "i">>), TypeOnly>>,
     <<MainPath(<<"a", "/", "2">>), CvOutput>>,
     <<MainPath(<<"a", "/", "2">>), DirectionOnly>>,
     <<MainPath(<<"a", "2", "/", "i">>), AudioInput>>}

RECURSIVE PutsOf(_, _)
PutsOf(f, k) ==
    IF k = 0 THEN <<>>
    ELSE PutsOf(f, k - 1) \o EnginePut(k, f[k][1], f[k][2])

\* The responses to get_state: up to MaxPuts puts
StateResponses ==
    UNION {{PutsOf(f, n) : f \in [1..n -> EnginePuts]} : n \in 0..MaxPuts}

\* The subject and the body of every patch:Put of the graph (the last
\* subject and the last body found, when there are several)
PutSubjects(graph) ==
    LET puts == {t[1] : t \in {x \in graph : /\ x[2] = Ns("rdf", "type")
                                            /\ x[3] = Ns("patch", "Put")}}
    IN  UNION {{<<uri, x[3]>> :
                   uri \in IriObjects(graph, put_node, Ns("patch", "subject")),
                   x \in {y \in graph : y[1] = put_node /\ y[2] = Ns("patch", "body")}}
               : put_node \in puts}

\* The port that a body describes under a path: its id is the lv2:symbol
\* of the body or else the last segment of the path; none without a type
\* (audio or CV) or without a direction
PortOfBody(graph, port_uri, body) ==
    LET types == {x[3] : x \in {y \in graph : y[1] = body /\ y[2] = Ns("rdf", "type")}}
        symbols == {x[3].v[1] : x \in {y \in graph : /\ y[1] = body
                                                    /\ y[2] = Ns("lv2", "symbol")
                                                    /\ y[3].k = "literal"}}
        is_audio == Ns("lv2", "AudioPort") \in types
        is_cv == Ns("lv2", "CVPort") \in types
        is_input == Ns("lv2", "InputPort") \in types
        is_output == Ns("lv2", "OutputPort") \in types
        ids == IF symbols = {} THEN {LastSegment(port_uri)} ELSE symbols
    IN  IF (is_audio \/ is_cv) /\ (is_input \/ is_output)
        THEN {[id |-> port_symbol,
               port_type |-> IF is_audio THEN "Audio" ELSE "Midi",
               direction |-> IF is_input THEN "Input" ELSE "Output"] : port_symbol \in ids}
        ELSE {}

\* ports.sort_by(id) and ports.dedup_by(id): one port for each id, in the
\* order of the ids; the possible results
RECURSIVE SortById(_)
SortById(ports) ==
    IF ports = {} THEN {<<>>}
    ELSE LET first_id == CHOOSE i \in {p.id : p \in ports} :
                            \A j \in {p.id : p \in ports} : j = i \/ StrLess(i, j)
             rest == {p \in ports : p.id # first_id}
         IN  {<<port>> \o tail : port \in {p \in ports : p.id = first_id},
                                 tail \in SortById(rest)}

\* The ports pushed for a block: every put whose path starts with the path
\* of the block and is not that path
BlockPorts(graph, block_id) ==
    UNION {PortOfBody(graph, put[1], put[2]) :
              put \in {x \in PutSubjects(graph) :
                          starts_with(x[1], block_id) /\ x[1] # block_id}}

\* IngenProtocol::parse_graph, the blocks: every subject of a put whose
\* body is an ingen:Block, with its name and its ports; the possible
\* results (the blocks come in the order of a HashSet, kept as a set here)
parse_graph_blocks(response) ==
    LET graph == parse_response(response)
        block_subjects ==
            {put[1] : put \in {x \in PutSubjects(graph) :
                                  <<x[2], Ns("rdf", "type"), Ns("ingen", "Block")>> \in graph}}
        choices == {f \in [block_subjects -> UNION {SortById(BlockPorts(graph, b)) :
                                                       b \in block_subjects}] :
                       \A b \in block_subjects : f[b] \in SortById(BlockPorts(graph, b))}
    IN  {{[id |-> b, name |-> LastSegment(b), ports |-> f[b]] : b \in block_subjects}
         : f \in choices}

\* IngenProtocol::parse_graph, the system ports: the puts directly under
\* the root with a type and a direction, in the order found (kept as a set)
parse_graph_ports(response) ==
    LET graph == parse_response(response)
    IN  UNION {PortOfBody(graph, put[1], put[2]) :
                  put \in {x \in PutSubjects(graph) :
                              /\ starts_with(x[1], <<MainPrefix>>)
                              /\ x[1] # <<MainPrefix>>
                              /\ \A i \in 2..Len(x[1]) : x[1][i] # "/"}}

\* Engine::get_graph: the response parsed into blocks, connections and
\* system ports
GetGraph ==
    /\ parsed_graph = {}
    /\ \E blocks \in parse_graph_blocks(state_response),
          connections \in parse_graph(state_response) :
          parsed_graph' = {[blocks |-> blocks,
                            connections |-> connections,
                            ports |-> parse_graph_ports(state_response)]}
    /\ UNCHANGED <<state_response, ui_vars, ctl_vars, eng_vars, seq_vars, conn_vars,
                   cal_vars, rt_vars, loop_vars, torn_vars, lock_vars>>

StateNext ==
    \/ GetGraph

StateInit ==
    /\ state_response \in StateResponses
    /\ parsed_graph = {}

RtInit ==
    /\ BLANK_NODE_COUNTER \in 0..MaxBlankNodes
    /\ rt_pc = "args"
    /\ rt_args \in Paths \X Paths
    /\ rt_message = <<>>
    /\ rt_response = <<>>
    /\ rt_connections = {}

\* Engine::connect builds the message
BuildConnect ==
    /\ rt_pc = "args"
    /\ rt_message' = build_connect(rt_args[1], rt_args[2], BLANK_NODE_COUNTER,
                                   SEQUENCE_NUMBER)
    /\ BLANK_NODE_COUNTER' = BLANK_NODE_COUNTER + 2
    /\ SEQUENCE_NUMBER' = fetch_add(SEQUENCE_NUMBER)
    /\ rt_pc' = "built"
    /\ UNCHANGED <<rt_args, rt_response, rt_connections, seq_pc, seq_num, seq_kind,
                   seq_built, seq_messages, ui_vars, ctl_vars, eng_vars, conn_vars, cal_vars, loop_vars, torn_vars, lock_vars, state_vars>>

\* The engine answers with a response that embeds the arc
EngineAnswers ==
    /\ rt_pc = "built"
    /\ \E before \in EngineContent,
          after \in {<<>>, EngineArc(2, "ingen:/main/in", "ingen:/main/out")} :
          rt_response' = before \o rt_message \o after
    /\ rt_pc' = "answered"
    /\ UNCHANGED <<BLANK_NODE_COUNTER, rt_args, rt_message, rt_connections,
                   seq_vars, ui_vars, ctl_vars, eng_vars, conn_vars, cal_vars, loop_vars, torn_vars, lock_vars, state_vars>>

\* Engine::get_graph parses the response
ParseGraph ==
    /\ rt_pc = "answered"
    /\ rt_connections' \in parse_graph(rt_response)
    /\ rt_pc' = "parsed"
    /\ UNCHANGED <<BLANK_NODE_COUNTER, rt_args, rt_message, rt_response,
                   seq_vars, ui_vars, ctl_vars, eng_vars, conn_vars, cal_vars, loop_vars, torn_vars, lock_vars, state_vars>>

RtNext ==
    \/ BuildConnect
    \/ EngineAnswers
    \/ ParseGraph

RtIdle ==
    /\ BLANK_NODE_COUNTER = 0
    /\ rt_pc = "args"
    /\ rt_args = <<"ingen:/main/in", "ingen:/main/out">>
    /\ rt_message = <<>>
    /\ rt_response = <<>>
    /\ rt_connections = {}

\* ------------------------------------------------------------------------
\* MIDI input and the control loop (src/src/controller/driver.rs,
\* Controller::run_until_signal)
\* ------------------------------------------------------------------------
RECURSIVE BitOr(_, _)
\* a | b on unsigned integers
BitOr(a, b) ==
    IF a = 0 THEN b
    ELSE IF b = 0 THEN a
    ELSE 2 * BitOr(a \div 2, b \div 2) + (IF a % 2 = 1 \/ b % 2 = 1 THEN 1 ELSE 0)

\* An event other than ControlChange: its second field is kept in `control`
MidiEvent(type, channel, control, value) ==
    [type |-> type, channel |-> channel, control |-> control, value |-> value]

\* from_raw decoding the note messages as well
from_raw_with_notes(data) ==
    IF data = <<>> THEN {}
    ELSE LET status == data[1]
             message_type == (status \div 16) * 16
             channel == status % 16
         IN  CASE message_type = 176 ->
                    IF Len(data) >= 3 THEN {ControlChange(channel, data[2], data[3])} ELSE {}
               [] message_type \in {128, 144} ->
                    IF Len(data) >= 3 THEN {MidiEvent("Note", channel, data[2], data[3])} ELSE {}
               [] OTHER -> {}

\* MidiEvent::from_raw: {} is None
from_raw(data) ==
    IF data = <<>> THEN {}
    ELSE LET status == data[1]
             message_type == (status \div 16) * 16
             channel == status % 16
         IN  CASE message_type = 176 ->
                    IF Len(data) >= 3 THEN {ControlChange(channel, data[2], data[3])} ELSE {}
               [] message_type = 192 ->
                    IF Len(data) >= 2 THEN {MidiEvent("ProgramChange", channel, data[2], 0)} ELSE {}
               [] message_type = 208 ->
                    IF Len(data) >= 2 THEN {MidiEvent("AfterTouch", channel, data[2], 0)} ELSE {}
               [] message_type = 224 ->
                    IF Len(data) >= 3
                    THEN {MidiEvent("PitchBend", channel, 0, BitOr(data[3] * 128, data[2]))}
                    ELSE {}
               [] message_type = 160 ->
                    IF Len(data) >= 3
                    THEN {MidiEvent("PolyAfterTouch", channel, data[2], data[3])} ELSE {}
               [] message_type \in {128, 144} -> {}
               [] OTHER -> {}

\* Raw messages that JACK can deliver: every kind of status byte, with
\* payloads of zero to three bytes
StatusBytes == {0, 127, 128, 143, 144, 159, 160, 176, 181, 191, 192, 208, 224, 240}
DataBytes == {0, 100, 255}
RawMessages ==
    {<<>>} \cup {<<s>> : s \in StatusBytes}
    \cup {<<s, a>> : s \in StatusBytes, a \in DataBytes}
    \cup {<<s, a, b>> : s \in StatusBytes, a \in DataBytes, b \in DataBytes}
    \cup {<<s, a, b, 0>> : s \in {144, 176}, a \in DataBytes, b \in DataBytes}

\* The messages of a session: the two buttons pressed, and a note
LoopMessages == {<<176, 20, 127>>, <<176, 21, 127>>, <<144, 60, 100>>}

RECURSIVE Cycles(_, _)
\* The process cycles of up to n messages
Cycles(messages, n) ==
    IF n = 0 THEN {<<>>}
    ELSE LET shorter == Cycles(messages, n - 1)
         IN  shorter \cup {Append(c, m) : c \in shorter, m \in messages}

RECURSIVE SendAll(_, _)
\* The process callback: every message of the cycle is parsed and the
\* events are sent to the channel
SendAll(cycle, q) ==
    IF cycle = <<>> THEN q
    ELSE LET event == from_raw(Head(cycle))
         IN  SendAll(Tail(cycle), IF event # {} THEN Append(q, UnwrapOr(event, <<>>)) ELSE q)

LoopInit ==
    /\ running = TRUE
    /\ sender_alive \in BOOLEAN
    /\ queue = <<>>
    /\ loop_pc = "check"
    /\ loop_event = {}
    /\ jack_log = <<>>
    /\ loop_log = [recvs_after_clear |-> 0, taken_after_clear |-> 0, warned |-> 0,
                   processed_after_warn |-> 0]

\* The JACK process callback runs for one cycle
JackCallback ==
    /\ sender_alive
    /\ midi_in # <<>>
    /\ queue' = IF loop_pc = "returned" THEN queue ELSE SendAll(midi_in, queue)
    /\ jack_log' = [i \in 1..Len(midi_in) |-> [data |-> midi_in[i], event |-> from_raw(midi_in[i])]]
    /\ midi_in' = <<>>
    /\ UNCHANGED <<running, sender_alive, loop_pc, loop_event, loop_log,
                   ui_vars, ctl_vars, eng_vars, seq_vars, conn_vars, cal_vars, rt_vars, torn_vars, lock_vars, state_vars>>

\* The Ctrl-C handler clears the flag
CtrlC ==
    /\ running
    /\ running' = FALSE
    /\ UNCHANGED <<sender_alive, midi_in, queue, loop_pc, loop_event, jack_log, loop_log,
                   ui_vars, ctl_vars, eng_vars, seq_vars, conn_vars, cal_vars, rt_vars, torn_vars, lock_vars, state_vars>>

\* while running.load(): the loop goes on to receive, or returns
LoopCheck ==
    /\ loop_pc = "check"
    /\ loop_pc' = IF running THEN "recv" ELSE "returned"
    /\ UNCHANGED <<running, sender_alive, midi_in, queue, loop_event, jack_log, loop_log,
                   ui_vars, ctl_vars, eng_vars, seq_vars, conn_vars, cal_vars, rt_vars, torn_vars, lock_vars, state_vars>>

\* A receive that waits until an event is there
recv(q, alive) ==
    IF q # <<>> THEN {"Ok"}
    ELSE IF alive THEN {} ELSE {"Disconnected"}

\* Receiver::recv_timeout(100 ms): the possible results
recv_timeout(q, alive) ==
    IF q # <<>> THEN {"Ok"}
    ELSE IF alive THEN {"Timeout"} ELSE {"Disconnected"}

\* event_receiver.recv_timeout returns
Recv ==
    /\ loop_pc = "recv"
    /\ \E r \in recv_timeout(queue, sender_alive) :
          /\ loop_pc' = CASE r = "Ok" -> "process"
                          [] r = "Timeout" -> "check"
                          [] r = "Disconnected" -> "returned"
          /\ loop_event' = IF r = "Ok" THEN {Head(queue)} ELSE loop_event
          /\ queue' = IF r = "Ok" THEN Tail(queue) ELSE queue
          /\ loop_log' = [loop_log EXCEPT
                            !.recvs_after_clear = @ + (IF running THEN 0 ELSE 1),
                            !.taken_after_clear =
                                @ + (IF ~running /\ r = "Ok" THEN 1 ELSE 0)]
    /\ UNCHANGED <<running, sender_alive, midi_in, jack_log,
                   ui_vars, ctl_vars, eng_vars, seq_vars, conn_vars, cal_vars, rt_vars, torn_vars, lock_vars, state_vars>>

\* The loop ending when process_midi_event returns an error
after_process_propagate(err) == IF err THEN "returned" ELSE "check"

\* Where the loop goes after process_midi_event returned: an error is
\* logged and the loop goes on
after_process(err) == "check"

\* self.process_midi_event(event) for the event received
LoopProcess ==
    /\ loop_pc = "process"
    /\ \E c \in process_midi_event(CtlState, UnwrapOr(loop_event, <<>>)) :
          /\ CtlSet(c, UnwrapOr(loop_event, <<>>))
          /\ loop_pc' = after_process(c.err)
          /\ loop_log' = [loop_log EXCEPT
                            !.warned = @ + (IF c.err THEN 1 ELSE 0),
                            !.processed_after_warn =
                                @ + (IF loop_log.warned > 0 THEN 1 ELSE 0)]
    /\ loop_event' = {}
    /\ UNCHANGED <<running, sender_alive, midi_in, queue, jack_log,
                   eng_vars, seq_vars, conn_vars, cal_vars, rt_vars, torn_vars, lock_vars, state_vars>>

LoopNext ==
    \/ JackCallback
    \/ CtrlC
    \/ LoopCheck
    \/ Recv
    \/ LoopProcess

\* Only the process callback runs
RawNext == JackCallback

LoopIdle ==
    /\ LoopInit
    /\ sender_alive
    /\ midi_in = <<>>

\* The controller and the graph model as process_midi_event left them
CtlInitAt(c) ==
    /\ UiInitAt(c.ui)
    /\ state = c.state
    /\ main_knob_accumulator = c.main
    /\ secondary_knob_accumulator = c.secondary
    /\ current_feature = c.feature
    /\ current_element = c.element
    /\ feature_menu_state = c.fstate
    /\ plugin_ui_element = c.plugin_element
    /\ ctl_event = [event |-> [type |-> "None"], calls |-> <<>>, state |-> "Initializing",
                    err |-> FALSE]

\* The controller after Controller::new found a stored config
NewController ==
    [ui |-> ControllerNewUi, state |-> "Navigating", main |-> 0, secondary |-> 0,
     feature |-> {}, element |-> {}, fstate |-> NewFeatureStates,
     plugin_element |-> {}, calls |-> <<>>, err |-> FALSE]

RECURSIVE Pressed(_, _)
\* The controllers that n presses of the selection button lead to
Pressed(c, n) ==
    IF n = 0 THEN {c}
    ELSE UNION {process_midi_event(d, ControlChange(0, 20, 127)) : d \in Pressed(c, n - 1)}

\* The controller at the start of a session, and at the port list of the
\* input feature (four presses of the selection button later)
LoopControllers ==
    {NewController}
    \cup {c \in Pressed(NewController, 4) : c.fstate["input"][1] = "PortList"
                                            /\ Len(c.ui.menus) = 4
                                            /\ Last(c.ui.menus).options = <<PortOption>>}

\* ------------------------------------------------------------------------
\* The graph model read by one thread while another changes it
\* (src/src/ui/mod.rs: every field of UI is a Mutex of its own, and each
\* step below is one critical section of create_node, insert_node,
\* create_link or remove_link)
\* ------------------------------------------------------------------------
\* What display_graph sees: it holds the locks of nodes, links and
\* focused_element together
Snapshot(s) == [nodes |-> s.nodes, links |-> s.links, focused |-> s.focused]

MutPc(call, k, at) == <<call, k, at>>
MutIdle == MutPc("idle", 0, "")
MutDone == MutPc("done", 0, "")

NoMutation ==
    [op |-> "none", node_id |-> "", node_type |-> "", link_from |-> "", link_to |-> "",
     link1_type |-> "", link2_type |-> "", both_context |-> FALSE, link_order |-> 0,
     ok |-> TRUE]

\* The calls made by the mutating thread: a node created, or inserted on a
\* link (the sentinel link, a link of n1, or a link from a node that is not
\* in the model)
MutationInputs ==
    {[NoMutation EXCEPT !.op = "create_node", !.node_id = "n2", !.node_type = t]
        : t \in {"Normal", "Context"}}
    \cup {[NoMutation EXCEPT !.op = "insert_node", !.node_id = "n2", !.node_type = t,
                             !.link_from = p[1], !.link_to = p[2]]
            : t \in {"Normal", "PortOut"},
              p \in {<<"inputs", "outputs">>, <<"inputs", "n1">>, <<"n1", "outputs">>,
                     <<"n3", "outputs">>}}

\* The call as one step: what the model is once the call has returned
Applied(s, m) ==
    CASE m.op = "create_node" -> create_node(s, m.node_id, m.node_type)
      [] m.op = "insert_node" ->
            insert_node(s, m.node_id, m.node_type, m.link_from, m.link_to)
      [] OTHER -> Ok(s)

\* One critical section of the mutating thread: the fields it leaves
MutSet(n, l, f, o, next_pc, call) ==
    /\ nodes' = n
    /\ links' = l
    /\ focused_element' = f
    /\ order_counter' = o
    /\ mut_pc' = next_pc
    /\ mut_call' = call
    /\ UNCHANGED <<visit_counter, menu_stack, focused_menu_option, menu_focus_memory,
                   ui_call, mut_pre, observed,
                   ctl_vars, eng_vars, seq_vars, conn_vars, cal_vars, rt_vars, loop_vars, lock_vars, state_vars>>

\* The mutating thread calls create_node or insert_node
MutBegin ==
    /\ mut_pc = MutIdle
    /\ \E m \in MutationInputs :
          /\ mut_call' = m
          /\ mut_pc' = MutPc("node", 0, "insert")
    /\ mut_pre' = UiState
    /\ UNCHANGED <<ui_vars, observed,
                   ctl_vars, eng_vars, seq_vars, conn_vars, cal_vars, rt_vars, loop_vars, lock_vars, state_vars>>

\* Where create_node returns to
AfterCreateNode(m) ==
    IF m.op = "create_node" THEN MutDone ELSE MutPc("types", 0, "")

\* create_node: self.nodes.lock().insert, then focused_element.lock() if the
\* node is not a Context node
CreateNodeStep ==
    /\ mut_pc[1] = "node"
    /\ CASE mut_pc[3] = "insert" ->
              MutSet(MapInsert(nodes, mut_call.node_id, mut_call.node_type), links,
                     focused_element, order_counter,
                     IF mut_call.node_type # "Context"
                     THEN MutPc("node", 0, "focus") ELSE AfterCreateNode(mut_call),
                     mut_call)
         [] mut_pc[3] = "focus" ->
              MutSet(nodes, links, ElementNode(mut_call.node_id), order_counter,
                     AfterCreateNode(mut_call), mut_call)

\* insert_node: self.nodes.lock() to compute the two link types
LinkTypesStep ==
    /\ mut_pc[1] = "types"
    /\ MutSet(nodes, links, focused_element, order_counter, MutPc("link", 1, "check"),
              [mut_call EXCEPT
                 !.link1_type = calculate_link_type(MapGet(nodes, mut_call.link_from),
                                                    mut_call.node_type),
                 !.link2_type = calculate_link_type(mut_call.node_type,
                                                    MapGet(nodes, mut_call.link_to))])

\* create_link: nodes.lock() for the checks, order_counter.lock(),
\* links.lock().insert, focused_element.lock()
CreateLinkStep ==
    /\ mut_pc[1] = "link"
    /\ LET k == mut_pc[2]
           from_id == IF k = 1 THEN mut_call.link_from ELSE mut_call.node_id
           to_id == IF k = 1 THEN mut_call.node_id ELSE mut_call.link_to
           link_type == IF k = 1 THEN mut_call.link1_type ELSE mut_call.link2_type
       IN  CASE mut_pc[3] = "check" ->
                  IF from_id \notin DOMAIN nodes \/ to_id \notin DOMAIN nodes
                  THEN MutSet(nodes, links, focused_element, order_counter, MutDone,
                              [mut_call EXCEPT !.ok = FALSE])
                  ELSE MutSet(nodes, links, focused_element, order_counter,
                              MutPc("link", k, "order"),
                              [mut_call EXCEPT !.both_context =
                                  nodes[from_id] = "Context" /\ nodes[to_id] = "Context"])
             [] mut_pc[3] = "order" ->
                  MutSet(nodes, links, focused_element, order_counter + 1,
                         MutPc("link", k, "insert"),
                         [mut_call EXCEPT !.link_order =
                             IF mut_call.both_context THEN I64_MAX ELSE order_counter + 1])
             [] mut_pc[3] = "insert" ->
                  MutSet(nodes,
                         HashSetInsert(links, Link(from_id, to_id, -mut_call.link_order,
                                                   mut_call.link_order, link_type)),
                         focused_element, order_counter, MutPc("link", k, "focus"), mut_call)
             [] mut_pc[3] = "focus" ->
                  MutSet(nodes, links,
                         IF focused_element = NoFocus
                         THEN ElementLink(from_id, to_id, link_type) ELSE focused_element,
                         order_counter,
                         IF k = 1 THEN MutPc("link", 2, "check")
                         ELSE IF ~(mut_call.link_from = "inputs" /\ mut_call.link_to = "outputs")
                         THEN MutPc("remove", 0, "") ELSE MutDone,
                         mut_call)

\* remove_link: self.links.lock().remove
RemoveLinkStep ==
    /\ mut_pc[1] = "remove"
    /\ LET link == Link(mut_call.link_from, mut_call.link_to, 0, 0, "Normal")
       IN  IF HashSetContains(links, link)
           THEN MutSet(nodes, HashSetRemove(links, link), focused_element, order_counter,
                       MutDone, mut_call)
           ELSE MutSet(nodes, links, focused_element, order_counter, MutDone,
                       [mut_call EXCEPT !.ok = FALSE])

\* Another thread reads the model
ReadGraph ==
    /\ observed' = {Snapshot(UiState)}
    /\ observed' # observed
    /\ UNCHANGED <<ui_vars, mut_pc, mut_call, mut_pre,
                   ctl_vars, eng_vars, seq_vars, conn_vars, cal_vars, rt_vars, loop_vars, lock_vars, state_vars>>

TornNext ==
    \/ MutBegin
    \/ CreateNodeStep
    \/ LinkTypesStep
    \/ CreateLinkStep
    \/ RemoveLinkStep
    \/ ReadGraph

\* No response read
StateIdle ==
    /\ state_response = <<>>
    /\ parsed_graph = {}

\* struct UI: the fields behind a Mutex
Mutexes ==
    {"session_name", "nodes", "links", "focused_element", "visit_counter",
     "order_counter", "menu_stack", "focused_menu_option", "menu_focus_memory"}

\* The thread that turns the knobs and the thread that builds the graph
UiThreads == {"navigating", "building"}

Unlocked == "unlocked"

\* mutex.lock().unwrap() and the drop of the guard, explicit or at the end
\* of the scope of its binding
Lock(m) == <<"lock", m>>
Drop(m) == <<"drop", m>>

\* display_graph: the session name, then nodes, links and the focus, all
\* held to the end of the function
display_graph ==
    <<Lock("session_name"), Lock("nodes"), Lock("links"), Lock("focused_element"),
      Drop("focused_element"), Drop("links"), Drop("nodes"), Drop("session_name")>>

\* navigate: the paths through its locks. The menu branch returns without
\* display_graph; every other path ends with it.
NavigateMenuPaths ==
    {<<Lock("menu_stack"), Drop("menu_stack"),
       Lock("focused_menu_option"), Drop("focused_menu_option"),
       Lock("menu_stack"), Lock("menu_focus_memory"), Drop("menu_focus_memory"),
       Drop("menu_stack")>>,
     <<Lock("menu_stack"), Drop("menu_stack"),
       Lock("focused_menu_option"), Drop("focused_menu_option")>>}

NavigateGraphPaths ==
    {\* Main from a node, a link found: links locked again as mutable
     <<Lock("focused_element"), Lock("links"), Drop("links"), Lock("links"),
       Lock("visit_counter"), Drop("visit_counter"),
       Drop("links"), Drop("focused_element")>>,
     \* Main from a node, no link found
     <<Lock("focused_element"), Lock("links"), Drop("links"), Lock("links"),
       Drop("links"), Drop("focused_element")>>,
     \* Main from a link, and Secondary from a node
     <<Lock("focused_element"), Lock("links"), Lock("nodes"),
       Drop("nodes"), Drop("links"), Drop("focused_element")>>,
     \* Main without a focus, and Secondary from a link
     <<Lock("focused_element"), Lock("links"),
       Drop("links"), Drop("focused_element")>>,
     \* Secondary without a focus
     <<Lock("focused_element"), Drop("focused_element")>>}

NavigatePaths ==
    NavigateMenuPaths
    \cup {<<Lock("menu_stack"), Drop("menu_stack")>> \o path \o display_graph :
             path \in NavigateGraphPaths}

\* create_node: the node map, the focus for a node that is not a Context
\* node, display_graph
CreateNodePaths ==
    {<<Lock("nodes"), Drop("nodes"),
       Lock("focused_element"), Drop("focused_element")>> \o display_graph,
     <<Lock("nodes"), Drop("nodes")>> \o display_graph}

\* create_link: the node map (an early return when an end is missing),
\* the order counter, the links, the focus, display_graph
CreateLinkPaths ==
    {<<Lock("nodes"), Drop("nodes")>>,
     <<Lock("nodes"), Drop("nodes"), Lock("order_counter"), Drop("order_counter"),
       Lock("links"), Drop("links"),
       Lock("focused_element"), Drop("focused_element")>> \o display_graph}

\* select: the menu stack and the focused option, then either the option
\* or the graph focus, display_graph
SelectPaths ==
    {<<Lock("menu_stack"), Lock("focused_menu_option"),
       Drop("focused_menu_option"), Drop("menu_stack")>> \o display_graph,
     <<Lock("menu_stack"), Lock("focused_menu_option"),
       Drop("focused_menu_option"), Drop("menu_stack"),
       Lock("focused_element"), Drop("focused_element")>> \o display_graph,
     <<Lock("menu_stack"), Drop("menu_stack"),
       Lock("focused_element"), Drop("focused_element")>> \o display_graph}

\* No call in progress, every mutex free
LockIdle ==
    /\ mutex_owner = [m \in Mutexes |-> Unlocked]
    /\ thread_pc = [t \in UiThreads |-> <<>>]

\* One thread calls navigate
CallNavigate ==
    /\ thread_pc["navigating"] = <<>>
    /\ \E path \in NavigatePaths :
          thread_pc' = [thread_pc EXCEPT !["navigating"] = path]
    /\ UNCHANGED <<mutex_owner, ui_vars, ctl_vars, eng_vars, seq_vars, conn_vars,
                   cal_vars, rt_vars, loop_vars, torn_vars, state_vars>>

\* The other thread calls create_node, create_link or select
CallGraphOperation ==
    /\ thread_pc["building"] = <<>>
    /\ \E path \in CreateNodePaths \cup CreateLinkPaths \cup SelectPaths :
          thread_pc' = [thread_pc EXCEPT !["building"] = path]
    /\ UNCHANGED <<mutex_owner, ui_vars, ctl_vars, eng_vars, seq_vars, conn_vars,
                   cal_vars, rt_vars, loop_vars, torn_vars, state_vars>>

\* Mutex::lock returns once the mutex is free; until then the thread waits
LockStep(t) ==
    /\ thread_pc[t] # <<>>
    /\ Head(thread_pc[t])[1] = "lock"
    /\ mutex_owner[Head(thread_pc[t])[2]] = Unlocked
    /\ mutex_owner' = [mutex_owner EXCEPT ![Head(thread_pc[t])[2]] = t]
    /\ thread_pc' = [thread_pc EXCEPT ![t] = Tail(thread_pc[t])]
    /\ UNCHANGED <<ui_vars, ctl_vars, eng_vars, seq_vars, conn_vars,
                   cal_vars, rt_vars, loop_vars, torn_vars, state_vars>>

\* The guard is dropped
DropStep(t) ==
    /\ thread_pc[t] # <<>>
    /\ Head(thread_pc[t])[1] = "drop"
    /\ mutex_owner' = [mutex_owner EXCEPT ![Head(thread_pc[t])[2]] = Unlocked]
    /\ thread_pc' = [thread_pc EXCEPT ![t] = Tail(thread_pc[t])]
    /\ UNCHANGED <<ui_vars, ctl_vars, eng_vars, seq_vars, conn_vars,
                   cal_vars, rt_vars, loop_vars, torn_vars, state_vars>>

NavigatingLocks == LockStep("navigating")
NavigatingDrops == DropStep("navigating")
BuildingLocks == LockStep("building")
BuildingDrops == DropStep("building")

LockNext ==
    \/ CallNavigate
    \/ CallGraphOperation
    \/ NavigatingLocks
    \/ NavigatingDrops
    \/ BuildingLocks
    \/ BuildingDrops

TornInit ==
    /\ mut_pc = MutIdle
    /\ mut_call = NoMutation
    /\ mut_pre = UiState
    /\ observed = {}

AuxIdle == SeqIdle /\ ConnIdle /\ CalIdle /\ RtIdle /\ LoopIdle /\ TornInit /\ LockIdle /\ StateIdle

\* ------------------------------------------------------------------------
\* Specifications
\* ------------------------------------------------------------------------
InitUI == UiInit /\ CtlInit /\ EngIdle /\ AuxIdle

SpecUI == InitUI /\ [][UiNext]_vars

\* Nodes are inserted on the links of the graph and the focus is moved
InitGraph == UiInit /\ CtlInit /\ EngIdle /\ AuxIdle

SpecGraph == InitGraph /\ [][GraphNext]_vars

\* Menus are opened, browsed and closed on the graph with the input port n1
InitUiMenu ==
    /\ UiInitAt(insert_node(ControllerNewUi, "n1", "PortIn", "inputs", "outputs").s)
    /\ CtlInit /\ EngIdle /\ AuxIdle

SpecUiMenu == InitUiMenu /\ [][UiMenuNext]_vars

\* Graphs that the controller navigates: the one Controller::new builds, and
\* the same after an input port n1 was inserted on the sentinel link
KnobGraphs ==
    {ControllerNewUi,
     insert_node(ControllerNewUi, "n1", "PortIn", "inputs", "outputs").s}

InitKnob == (\E s \in KnobGraphs : UiInitAt(s)) /\ CtlInit /\ EngIdle /\ AuxIdle

KnobNext == ProcessMidiEvent

SpecKnob == InitKnob /\ [][KnobNext]_vars

\* The controller at the menus after an input port n1 was added on the
\* sentinel link
InitSession ==
    /\ UiInitAt(insert_node(ControllerNewUi, PortNode("input"), "PortIn",
                            "inputs", "outputs").s)
    /\ CtlInit /\ EngIdle /\ AuxIdle

SessionNext == ProcessSessionEvent

SpecSession == InitSession /\ [][SessionNext]_vars

\* The controller at the menus of the features, after a start that loaded
\* the config or at the last step of a calibration
InitMenu ==
    /\ UiInit /\ EngIdle /\ SeqIdle /\ ConnIdle /\ RtIdle /\ LoopIdle /\ TornInit /\ LockIdle /\ StateIdle
    /\ (CtlInit /\ CalIdle) \/ BackButtonLeft

MenuNext ==
    \/ LearnMidiEvent
    \/ ProcessMenuEvent

SpecMenu == InitMenu /\ [][MenuNext]_vars

\* One thread calls the engine. prompt: the engine never pauses for longer
\* than the 30 s read timeout while it has output pending.
InitFraming == UiInit /\ CtlInit /\ EngInit /\ callers = {1} /\ prompt \in BOOLEAN /\ AuxIdle

SpecFraming == InitFraming /\ [][EngNext]_vars

\* Two threads call a prompt engine
InitEngine == UiInit /\ CtlInit /\ EngInit /\ callers = Threads /\ prompt = TRUE /\ AuxIdle

SpecEngine == InitEngine /\ [][EngNext]_vars

\* Two threads build messages
InitSeq == UiInit /\ CtlInit /\ EngIdle /\ SeqInit /\ ConnIdle /\ CalIdle /\ RtIdle /\ LoopIdle /\ TornInit /\ LockIdle /\ StateIdle

SpecSeq == InitSeq /\ [][SeqNext]_vars

\* Engine::new connects to the engine
InitConn == UiInit /\ CtlInit /\ EngIdle /\ SeqIdle /\ ConnInit /\ CalIdle /\ RtIdle /\ LoopIdle /\ TornInit /\ LockIdle /\ StateIdle

SpecConn == InitConn /\ [][ConnNext]_vars

\* The controller is calibrated and the process is started again
InitCal == UiInit /\ EngIdle /\ SeqIdle /\ ConnIdle /\ CalInit /\ RtIdle /\ LoopIdle /\ TornInit /\ LockIdle /\ StateIdle

SpecCal == InitCal /\ [][CalNext]_vars

\* A connect message is built, embedded in a response and parsed
InitRt == UiInit /\ CtlInit /\ EngIdle /\ SeqIdle /\ ConnIdle /\ CalIdle /\ RtInit /\ LoopIdle /\ TornInit /\ LockIdle /\ StateIdle

SpecRt == InitRt /\ [][RtNext]_vars

\* The process callback parses the messages of one cycle
InitRaw ==
    /\ UiInit /\ CtlInit /\ EngIdle /\ SeqIdle /\ ConnIdle /\ CalIdle /\ RtIdle
    /\ LoopInit /\ sender_alive /\ TornInit /\ LockIdle /\ StateIdle
    /\ midi_in \in {<<m>> : m \in RawMessages}

SpecRaw == InitRaw /\ [][RawNext]_vars

\* One thread creates or inserts a node while another reads the model
InitTorn ==
    /\ \E s \in KnobGraphs : UiInitAt(s)
    /\ CtlInit /\ EngIdle /\ SeqIdle /\ ConnIdle /\ CalIdle /\ RtIdle /\ LoopIdle
    /\ TornInit /\ LockIdle /\ StateIdle

SpecTorn == InitTorn /\ [][TornNext]_vars

\* Two threads call the operations of the graph model
InitLock == UiInit /\ CtlInit /\ EngIdle /\ AuxIdle

SpecLock == InitLock /\ [][LockNext]_vars

\* get_graph reads a state of the engine
InitState ==
    /\ UiInit /\ CtlInit /\ EngIdle /\ SeqIdle /\ ConnIdle /\ CalIdle /\ RtIdle
    /\ LoopIdle /\ TornInit /\ LockIdle /\ StateInit

SpecState == InitState /\ [][StateNext]_vars

\* The control loop runs until the flag is cleared
InitLoop ==
    /\ base_control_config = {LoadedConfig}
    /\ \E c \in LoopControllers : CtlInitAt(c)
    /\ EngIdle /\ SeqIdle /\ ConnIdle /\ CalIdle /\ RtIdle
    /\ LoopInit /\ TornInit /\ LockIdle /\ StateIdle
    /\ midi_in \in Cycles(LoopMessages, MaxCycleLen)

SpecLoop == InitLoop /\ [][LoopNext]_vars

\* The loop thread is scheduled, recv_timeout returns within its timeout and
\* process_midi_event returns
LoopFairness ==
    /\ WF_vars(LoopCheck)
    /\ WF_vars(Recv)
    /\ WF_vars(LoopProcess)

SpecLoopFair == InitLoop /\ [][LoopNext]_vars /\ LoopFairness

\* ------------------------------------------------------------------------
\* Properties of the graph model
\* ------------------------------------------------------------------------
LinkOf(S, f, t) == CHOOSE l \in S : l.from_id = f /\ l.to_id = t
HasLink(S, f, t) == \E l \in S : l.from_id = f /\ l.to_id = t

\* C1: the focus references only entities that exist: a focused Node(id) is
\* a key of the node map and a focused Link(from, to) is in the link set.
C1_FocusReferencesExisting ==
    /\ focused_element.tag = "Node" => focused_element.from_id \in DOMAIN nodes
    /\ focused_element.tag = "Link" =>
            HasLink(links, focused_element.from_id, focused_element.to_id)

FocusOnContext(f, n) == f.tag = "Node" /\ MapGet(n, f.from_id) = "Context"

\* C2: a navigate call never moves the focus onto a Context node, and a step
\* from a focused link towards an endpoint that is a Context node leaves the
\* focus unchanged.
C2_NavigateNeverFocusesContext ==
    [][ui_call'.op = "navigate" =>
        /\ ~FocusOnContext(focused_element, nodes) => ~FocusOnContext(focused_element', nodes')
        /\ (/\ ui_call'.args[1] = "Main"
            /\ menu_stack = <<>>
            /\ focused_element.tag = "Link"
            /\ MapGet(nodes, IF ui_call'.args[2] = "Forward"
                             THEN focused_element.to_id
                             ELSE focused_element.from_id) = "Context")
           => focused_element' = focused_element]_vars

\* C2 witness: a Main Forward step was taken from a focused link whose
\* destination is a Context node (no node-to-link step has happened yet, so
\* the link was the focus before the call) and the focus stayed on the link.
C2_Witness ==
    /\ ui_call.op = "navigate" /\ ui_call.args = <<"Main", "Forward">>
    /\ visit_counter = 0
    /\ focused_element.tag = "Link"
    /\ MapGet(nodes, focused_element.to_id) = "Context"

\* C3: the link set holds at most one link per (from_id, to_id) pair, and a
\* create_link call for a pair that is already linked leaves the number of
\* links unchanged.
C3_OneLinkPerPair ==
    /\ [](\A a \in links, b \in links : LinkEq(a, b) => a = b)
    /\ [][(/\ ui_call'.op = "create_link"
           /\ HasLink(links, ui_call'.args[1], ui_call'.args[2]))
          => Cardinality(links') = Cardinality(links)]_vars

\* C3 witness: a create_link call succeeded for a pair whose stored link is
\* not of the kind the call asked for, so the pair was already linked when
\* the call was made.
C3_Witness ==
    /\ ui_call.op = "create_link" /\ ui_call.ok
    /\ HasLink(links, ui_call.args[1], ui_call.args[2])
    /\ LinkOf(links, ui_call.args[1], ui_call.args[2]).link_type # ui_call.args[3]

\* The metadata that a create_link call computes (order_counter already
\* incremented by the call)
CallLinkOrder(n, from_id, to_id, counter) ==
    IF n[from_id] = "Context" /\ n[to_id] = "Context" THEN I64_MAX ELSE counter

\* C4: a create_link call for a pair that is already linked replaces the
\* stored link's metadata: afterwards the link of the pair carries the
\* order, visited_last and kind computed by this call.
C4_CreateLinkReplacesMetadata ==
    [][(/\ ui_call'.op = "create_link" /\ ui_call'.ok
        /\ HasLink(links, ui_call'.args[1], ui_call'.args[2]))
       => LET l == LinkOf(links', ui_call'.args[1], ui_call'.args[2])
              o == CallLinkOrder(nodes', ui_call'.args[1], ui_call'.args[2], order_counter')
          IN  /\ l.order = o
              /\ l.visited_last = -o
              /\ l.link_type = ui_call'.args[3]]_vars

\* ------------------------------------------------------------------------
\* Properties of the controller
\* ------------------------------------------------------------------------
\* What one knob event does to the knob's accumulator acc (acc2 afterwards)
\* and which navigation calls it makes
KnobLaw(acc, acc2, value, level, calls) ==
    LET sum == acc + (value - 64)
    IN  IF Abs(sum) < 256
        THEN calls = <<>> /\ acc2 = sum
        ELSE /\ calls = << <<level, IF sum > 0 THEN "Backward" ELSE "Forward">> >>
             /\ acc2 = 0

\* C5: each ControlChange value of a learned knob adds (value - 64) to the
\* knob's accumulator; while the absolute sum is below 256 no navigation call
\* is made; when it reaches 256 or more exactly one call is made, Backward
\* for a positive sum and Forward for a negative one, and the accumulator is
\* reset to 0; so after every event both absolute accumulators are below 256.
C5_KnobHysteresis ==
    /\ [](Abs(main_knob_accumulator) < 256 /\ Abs(secondary_knob_accumulator) < 256)
    /\ [][LET e == ctl_event'.event
          IN  /\ (e.type = "ControlChange" /\ Matches(LoadedConfig.main_knob, e))
                    => KnobLaw(main_knob_accumulator, main_knob_accumulator',
                               e.value, "Main", ctl_event'.calls)
              /\ (/\ e.type = "ControlChange"
                  /\ Matches(LoadedConfig.secondary_knob, e)
                  /\ state = "Navigating")
                    => KnobLaw(secondary_knob_accumulator, secondary_knob_accumulator',
                               e.value, "Secondary", ctl_event'.calls)]_vars

\* C5 witness: a main knob event with a positive delta made exactly one
\* Backward call and left the accumulator at 0
C5_Witness ==
    /\ ctl_event.event = ControlChange(0, 7, 96)
    /\ ctl_event.calls = << <<"Main", "Backward">> >>
    /\ main_knob_accumulator = 0

\* ------------------------------------------------------------------------
\* Properties of the engine transport
\* ------------------------------------------------------------------------
\* C6: the message that a query's receive returns is the response to that
\* very request: it holds the content of the request's response and the
\* content of no other request, whatever notifications and late responses
\* to earlier mutations the stream carries.
C6_ReceiveMatchesRequest ==
    \A t \in Threads :
        (prompt /\ result[t].status = "ok") =>
            /\ \E i \in 1..Len(result[t].msg) : result[t].msg[i] = Tok("Put", result[t].req)
            /\ \A i \in 1..Len(result[t].msg) :
                    result[t].msg[i].k = "Put" => result[t].msg[i].r = result[t].req

\* A thread is inside an engine operation: its drain is done, its write or
\* its receive is not
InOperation(t) == pc[t] \in {"write", "receive", "read", "peek"}

\* A step of thread u that reads or writes the socket or changes read_buffer
SocketStep(u) ==
    \/ drain_response(u)
    \/ send_message(u)
    \/ receive_begin(u)
    \/ receive_read(u)
    \/ receive_read_timeout(u)
    \/ receive_peek(u)

\* C7: operations of different threads never interleave on the socket:
\* while one thread is inside an operation no other thread reads or writes
\* the socket or changes read_buffer.
C7_OperationsNeverInterleave ==
    [][\A t \in Threads, u \in Threads :
            (t # u /\ InOperation(t)) => ~SocketStep(u)]_vars

\* The response to request r up to and including its final terminator
Framed(r) == SubSeq(Response(r), 1, 5)

\* C8: a response delivered in any chunking is returned as exactly one
\* message that holds the non-null bytes of the response in order and ends
\* at the final terminator, and the bytes stashed after the terminator are
\* still the read buffer when the next operation goes on to receive.
C8_ChunkedResponseReassembled ==
    /\ [](\A t \in Threads :
            (/\ prompt /\ notifications = 0 /\ next_request = 1
             /\ result[t].status = "ok")
                => result[t].msg = Framed(result[t].req))
    /\ [][\A t \in Threads :
            (prompt /\ pc[t] = "drain" /\ pc'[t] = "write")
                => read_buffer' = read_buffer]_vars

\* C9: every message returned to the caller contains the content marker,
\* and a completed message without it is discarded and reading resumes.
C9_ReturnedMessagesHaveContent ==
    /\ [](\A t \in Threads :
            result[t].status = "ok" => Contains(result[t].msg, "Put"))
    /\ [][\A t \in Threads :
            (/\ pc[t] \in {"read", "peek"}
             /\ pc'[t] \notin {"read", "peek"}
             /\ result'[t].status # "timeout"
             /\ ~Contains(result'[t].msg, "Put"))
                => (pc'[t] = "receive" /\ result'[t].status = "discarded")]_vars

\* C9 witness: a notification bundle was read to its end, dropped, and the
\* thread is back at the top of receive_message
C9_Witness ==
    \E t \in Threads :
        /\ result[t].status = "discarded"
        /\ Contains(result[t].msg, "BundleEnd")
        /\ pc[t] = "receive"

\* C10: when a chunk read times out with no bytes accumulated the call fails
\* with a timeout error; with bytes accumulated the timeout ends the message
\* (which is then returned or discarded by its content) without an error.
C10_TimeoutEndsOrFails ==
    [][\A t \in Threads :
            (pc[t] = "read" /\ wire = <<>> /\ pc'[t] # "read")
                => IF buffer[t] = <<>>
                   THEN result'[t].status = "timeout" /\ pc'[t] = "idle"
                   ELSE /\ result'[t].status \in {"ok", "discarded"}
                        /\ result'[t].msg = buffer[t]]_vars

\* C10 witness: a receive failed with the timeout error
C10_Witness ==
    \E t \in Threads : result[t].status = "timeout" /\ op[t].kind = "query"

\* ------------------------------------------------------------------------
\* Properties of the message builder
\* ------------------------------------------------------------------------
\* C11: the sequence numbers of the messages built in one process are
\* strictly increasing in build order: none repeats an earlier one or is
\* lower than it.
C11_SequenceNumbersIncrease ==
    \A i \in 1..Len(seq_built), j \in 1..Len(seq_built) :
        i < j => U32Less(seq_built[i], seq_built[j])

\* The events of one kind in connect_socket's log
LogCount(e) == Cardinality({i \in 1..Len(conn_log) : conn_log[i].e = e})

\* C12: connect_socket tries at most 10 times; a refused attempt that is
\* not the last one is followed by a sleep of 200 ms and then by the next
\* attempt; the tenth refusal ends it with the connection error; a
\* successful attempt ends it with the initialization message as the first
\* message written to the socket.
C12_BoundedRetriesThenPreamble ==
    /\ LogCount("refused") + LogCount("connected") <= 10
    /\ \A i \in 1..Len(conn_log) :
          /\ (conn_log[i].e = "refused" /\ i < Len(conn_log))
                => conn_log[i + 1] = [e |-> "sleep", ms |-> 200]
          /\ conn_log[i].e = "sleep"
                => (i > 1 /\ conn_log[i - 1].e = "refused"
                    /\ (i < Len(conn_log) => conn_log[i + 1].e \in {"refused", "connected"}))
          /\ conn_log[i].e = "connected" => i = Len(conn_log)
    /\ conn_pc = "failed" <=> LogCount("refused") = 10
    /\ conn_pc = "connected" <=> LogCount("connected") = 1
    /\ conn_pc # "connected" => conn_written = <<>>
    /\ conn_pc = "connected" => (conn_written # <<>> /\ conn_written[1] = "init")

\* C12 witness: the tenth attempt succeeded after nine refusals and nine
\* sleeps, and an operation has written its message after the preamble
C12_Witness ==
    /\ conn_pc = "connected"
    /\ LogCount("refused") = 9 /\ LogCount("sleep") = 9
    /\ Len(conn_written) = 2

\* ------------------------------------------------------------------------
\* Properties of the calibration
\* ------------------------------------------------------------------------
\* The config that a calibration with four learned events stands for
ConfigOf(l) ==
    [main_knob |-> MidiAssignment(l[1][1], l[1][2], "Knob"),
     secondary_knob |-> MidiAssignment(l[2][1], l[2][2], "Knob"),
     selection_button |-> MidiAssignment(l[3][1], l[3][2], "Button"),
     back_button |-> MidiAssignment(l[4][1], l[4][2], "Button")]

\* C13: after a calibration that learned four events with pairwise
\* different (channel, control), a start without forced recalibration loads
\* the same four assignments and leaves the controller in Navigating.
C13_CalibrationRoundTrip ==
    (/\ startup.calibrated /\ ~startup.force_init
     /\ Len(learned) = 4
     /\ \A i \in 1..4, j \in 1..4 : i # j => learned[i] # learned[j])
        => /\ startup.loaded
           /\ state = "Navigating"
           /\ base_control_config = {ConfigOf(learned)}

\* C13 witness: the process was started again without force_init after a
\* calibration whose four controls differ in channel or in control
C13_Witness ==
    /\ startup.calibrated /\ ~startup.force_init /\ startup.loaded
    /\ Len(learned) = 4
    /\ learned[1][1] # learned[2][1]
    /\ learned[3][2] = learned[1][2]
    /\ state = "Navigating"

\* ------------------------------------------------------------------------
\* Properties of the context menu
\* ------------------------------------------------------------------------
\* The names of the options of a menu
OptionNames(menu) == {MenuOptionName(menu.options[i]) : i \in 1..Len(menu.options)}

\* The event handled last was a press of the selection button in Navigating
SelectionPressed(e) ==
    /\ e.state = "Navigating"
    /\ e.event.type = "ControlChange"
    /\ Matches(LoadedConfig.selection_button, e.event)
    /\ e.event.value > 0

\* C14: a press of the selection button in Navigating with a link
\* (from, to) focused opens one menu whose options are 'Add Input...' iff
\* from is the inputs anchor, 'Add Output...' iff to is the outputs anchor,
\* 'Add Plugin...' iff from is not the inputs anchor, and always 'File...',
\* and leaves the controller in BrowsingMenu.
C14_LinkMenuOptions ==
    [][(/\ state = "Navigating"
        /\ focused_element.tag = "Link"
        /\ SelectionPressed(ctl_event'))
       => /\ Len(menu_stack') = Len(menu_stack) + 1
          /\ LET menu == Last(menu_stack')
                 names == OptionNames(menu)
             IN  /\ Cardinality(names) = Len(menu.options)
                 /\ names \subseteq {"Add Input...", "Add Output...", "Add Plugin...", "File..."}
                 /\ "Add Input..." \in names <=> focused_element.from_id = "inputs"
                 /\ "Add Output..." \in names <=> focused_element.to_id = "outputs"
                 /\ "Add Plugin..." \in names <=> focused_element.from_id # "inputs"
                 /\ "File..." \in names
          /\ state' = "BrowsingMenu"]_vars

\* C14 witness: the selection button was pressed on a link that does not
\* start at the inputs anchor, and its menu offers the plugin option
C14_Witness ==
    /\ SelectionPressed(ctl_event)
    /\ state = "BrowsingMenu"
    /\ Len(menu_stack) = 1
    /\ menu_stack[1].id = <<"link", "n1", "outputs">>
    /\ OptionNames(menu_stack[1]) = {"Add Output...", "Add Plugin...", "File..."}

\* C14, the sentinel link: its menu offers Add Input, Add Output and File
C14_SentinelWitness ==
    /\ SelectionPressed(ctl_event)
    /\ state = "BrowsingMenu"
    /\ Len(menu_stack) = 1
    /\ menu_stack[1].id = <<"link", "inputs", "outputs">>
    /\ OptionNames(menu_stack[1]) = {"Add Input...", "Add Output...", "File..."}

\* ------------------------------------------------------------------------
\* Properties of the protocol round trip
\* ------------------------------------------------------------------------
\* C15: the connections parsed from a response that embeds the arc built
\* by build_connect(s, d) contain Connection{source: s, destination: d}.
C15_ConnectRoundTrip ==
    rt_pc = "parsed"
        => [source |-> rt_args[1], destination |-> rt_args[2]] \in rt_connections

\* C15 witness: a response with an arc of the engine's own before the
\* embedded arc was parsed into two connections
C15_Witness ==
    /\ rt_pc = "parsed"
    /\ rt_args = <<"ingen:/main/fx/out", "ingen:/main/out">>
    /\ Len(rt_response) > Len(rt_message)
    /\ Cardinality(rt_connections) = 2
    /\ [source |-> "ingen:/main/fx/out", destination |-> "ingen:/main/out"] \in rt_connections

\* ------------------------------------------------------------------------
\* Properties of the controller state and the menu stack
\* ------------------------------------------------------------------------
\* C20: once the controller has left the learning states it is in
\* Navigating exactly when the menu stack is empty and in BrowsingMenu
\* exactly when it is not, and it never returns to a learning state.
C20_StateMatchesMenuStack ==
    /\ [](state \notin LearningStates
            => /\ state = "Navigating" <=> menu_stack = <<>>
               /\ state = "BrowsingMenu" <=> menu_stack # <<>>)
    /\ [][state \notin LearningStates => state' \notin LearningStates]_vars

\* C20 witness: a feature closed all the menus, three of them, and returned
\* the controller to Navigating after it had inserted a node
C20_Witness ==
    /\ state = "Navigating"
    /\ menu_stack = <<>>
    /\ ctl_event.state = "BrowsingMenu"
    /\ Matches(LoadedConfig.selection_button, ctl_event.event)
    /\ "n1" \in DOMAIN nodes
    /\ ~startup.loaded /\ Len(learned) = 4

\* ------------------------------------------------------------------------
\* Properties of the MIDI input and the control loop
\* ------------------------------------------------------------------------
\* C16: from_raw decodes every three-byte message with status 0xB0|channel
\* into ControlChange{channel, second byte, third byte}, and every message
\* whose status high nibble is 0x8 or 0x9 into no event.
C16_DecodeControlChange ==
    \A i \in 1..Len(jack_log) :
        LET data == jack_log[i].data
            event == jack_log[i].event
        IN  /\ (Len(data) = 3 /\ data[1] \in 176..191)
                => event = {[type |-> "ControlChange", channel |-> data[1] - 176,
                             control |-> data[2], value |-> data[3]]}
            /\ (Len(data) >= 1 /\ data[1] \in 128..159) => event = {}

\* C16 witness: the callback parsed a note-on with a payload and sent no
\* event for it
C16_Witness ==
    /\ jack_log # <<>>
    /\ jack_log[1].data = <<159, 100, 255>>
    /\ jack_log[1].event = {}
    /\ queue = <<>>

\* C16, the other case: a control change on channel 5 was parsed and sent
C16_ControlChangeWitness ==
    /\ jack_log # <<>>
    /\ jack_log[1].data = <<181, 100, 255>>
    /\ queue = <<[type |-> "ControlChange", channel |-> 5, control |-> 100, value |-> 255]>>

\* C17 as stated: once the flag is cleared the loop takes no event from
\* the queue
C17_NoEventAfterShutdown ==
    loop_log.taken_after_clear = 0

\* C17 as amended: once the flag is cleared the loop takes at most one
\* more event from the queue, completes at most one more receive, and
\* returns.
C17_ShutdownWithinOneReceive ==
    /\ [](loop_log.taken_after_clear <= 1 /\ loop_log.recvs_after_clear <= 1)
    /\ (~running ~> loop_pc = "returned")

\* C17 witness: the loop has returned after the flag was cleared, it took
\* one event after that, and it left an event in the queue
C17_Witness ==
    /\ ~running
    /\ loop_pc = "returned"
    /\ loop_log.taken_after_clear = 1
    /\ queue # <<>>

\* C19: an error returned by process_midi_event does not end the loop: the
\* loop goes back to its condition, with the queue as it was.
C19_ErrorDoesNotEndLoop ==
    [][(loop_pc = "process" /\ loop_event' = {} /\ ctl_event'.err)
       => (loop_pc' = "check" /\ queue' = queue)]_vars

\* C19 witness: a feature failed on one event and the loop has processed
\* the event that followed
C19_Witness ==
    /\ loop_log.warned = 1
    /\ loop_log.processed_after_warn = 1
    /\ current_feature = {"input"}

\* ------------------------------------------------------------------------
\* Properties of the model read while it is changed
\* ------------------------------------------------------------------------
\* The critical sections of a call, run one after the other, leave the
\* model that the call written as one step leaves
StepwiseMatchesApplied ==
    mut_pc = MutDone
        => /\ UiState = Applied(mut_pre, mut_call).s
           /\ mut_call.ok = Applied(mut_pre, mut_call).ok

\* C18: a thread that reads the model while another thread changes it sees
\* the model as it was before the call or as it is after the call, never a
\* partially applied call.
C18_NoTornRead ==
    observed \subseteq
        {Snapshot(mut_pre)}
        \cup (IF mut_pc = MutIdle THEN {} ELSE {Snapshot(Applied(mut_pre, mut_call).s)})

\* The first example of C18: the node added by insert_node is never seen
\* without its two links
C18_NodeSeenWithLinks ==
    \A o \in observed :
        (mut_call.op = "insert_node" /\ Applied(mut_pre, mut_call).ok
         /\ mut_call.node_id \in DOMAIN o.nodes)
            => /\ \E l \in o.links : l.from_id = mut_call.link_from /\ l.to_id = mut_call.node_id
               /\ \E l \in o.links : l.from_id = mut_call.node_id /\ l.to_id = mut_call.link_to

\* ------------------------------------------------------------------------
\* Properties of insert_node and create_link
\* ------------------------------------------------------------------------
Sentinel(l) == HasLink(l, "inputs", "outputs")

C26_SentinelWitness ==
    /\ ui_call = UiCall("insert_node", <<"n2", "Normal", "inputs", "outputs">>, TRUE)
    /\ HasLink(links, "inputs", "n2") /\ HasLink(links, "n2", "outputs")
    /\ Sentinel(links)

\* C27: an insert_node call that returns an error leaves the graph model as
\* it was: no node added, no link added or removed, focus unchanged.
C27_FailedInsertChangesNothing ==
    [][(ui_call'.op = "insert_node" /\ ~ui_call'.ok)
       => /\ nodes' = nodes
          /\ links' = links
          /\ focused_element' = focused_element]_vars

\* C28: create_link with a from_id or a to_id that is not in the node map
\* returns an error and leaves the link set, the focus and the order
\* counter as they were.
C28_CreateLinkRejectsMissingEndpoint ==
    [][(/\ ui_call'.op = "create_link"
        /\ \/ ui_call'.args[1] \notin DOMAIN nodes
           \/ ui_call'.args[2] \notin DOMAIN nodes)
       => /\ ~ui_call'.ok
          /\ nodes' = nodes
          /\ links' = links
          /\ focused_element' = focused_element
          /\ order_counter' = order_counter]_vars

\* C28 witness: a create_link call towards n1 failed while n1 is not in the
\* node map and links had been created before
C28_Witness ==
    /\ ui_call.op = "create_link" /\ ~ui_call.ok
    /\ ui_call.args[2] = "n1"
    /\ "n1" \notin DOMAIN nodes
    /\ order_counter > 1

\* ------------------------------------------------------------------------
\* Properties of navigation on the graph
\* ------------------------------------------------------------------------
FocusOf(l) == ElementLink(l.from_id, l.to_id, l.link_type)

\* C29: with a node focused and no menu open, Main Forward (Backward)
\* moves the focus to the link leaving (entering) the node that has the
\* highest visited_last and gives that link a visited_last greater than
\* that of every link of the graph; without such a link the focus and the
\* links are unchanged.
C29_NodeToMostRecentLink ==
    [][(/\ ui_call'.op = "navigate" /\ ui_call'.args[1] = "Main"
        /\ menu_stack = <<>>
        /\ focused_element.tag = "Node")
       => LET node == focused_element.from_id
              candidates == IF ui_call'.args[2] = "Forward"
                            THEN {l \in links : l.from_id = node}
                            ELSE {l \in links : l.to_id = node}
          IN  IF candidates = {}
              THEN focused_element' = focused_element /\ links' = links
              ELSE \E l \in candidates :
                      /\ \A m \in candidates : m.visited_last <= l.visited_last
                      /\ focused_element' = FocusOf(l)
                      /\ \E bumped \in links' :
                            /\ bumped = [l EXCEPT !.visited_last = bumped.visited_last]
                            /\ \A m \in links : bumped.visited_last > m.visited_last
                            /\ links' = (links \ {l}) \cup {bumped}]_vars

\* C29 witness: Main Forward moved the focus from a node with two links
\* leaving it to the one visited last, which now carries the highest
\* visited_last of the graph
C29_Witness ==
    /\ ui_call = UiCall("navigate", <<"Main", "Forward">>, TRUE)
    /\ focused_element.tag = "Link"
    /\ MapGet(nodes, focused_element.from_id) = "Normal"
    /\ Cardinality({l \in links : l.from_id = focused_element.from_id}) = 2
    /\ visit_counter = 1
    /\ \E l \in links : FocusOf(l) = focused_element /\ l.visited_last = 1

\* The links that Secondary navigation can move to from the link cur
SiblingTargets(l, cur, direction) ==
    LET siblings == {x \in l : x.from_id = cur.from_id /\ x.to_id # cur.to_id}
        beyond == IF direction = "Forward"
                  THEN {x \in siblings : x.order > cur.order}
                  ELSE {x \in siblings : x.order < cur.order}
    IN  {x \in beyond : \A y \in beyond :
            IF direction = "Forward" THEN x.order <= y.order ELSE y.order <= x.order}

\* C30: with a link focused and no menu open, Secondary Forward moves the
\* focus to the link with the same from_id that has the smallest order
\* greater than the focused link's, Secondary Backward to the one with the
\* largest order smaller than it, and the focus stays where it is when
\* there is none; a Forward step that moved the focus is undone by a
\* Backward step.
C30_SiblingByOrder ==
    /\ [][(/\ ui_call'.op = "navigate" /\ ui_call'.args[1] = "Secondary"
           /\ menu_stack = <<>>
           /\ focused_element.tag = "Link"
           /\ HasLink(links, focused_element.from_id, focused_element.to_id))
          => LET cur == LinkOf(links, focused_element.from_id, focused_element.to_id)
                 targets == SiblingTargets(links, cur, ui_call'.args[2])
             IN  /\ links' = links
                 /\ IF targets = {} THEN focused_element' = focused_element
                    ELSE \E x \in targets : focused_element' = FocusOf(x)]_vars
    /\ [](\A cur \in links :
            \A s1 \in navigate([UiState EXCEPT !.focused = FocusOf(cur), !.menus = <<>>],
                               "Secondary", "Forward") :
                s1.focused # FocusOf(cur)
                    => \A s2 \in navigate(s1, "Secondary", "Backward") :
                            s2.focused = FocusOf(cur))

\* C30 witness: Secondary Forward moved the focus from inputs->n1 to
\* inputs->n2, the middle one of the three links leaving inputs
C30_Witness ==
    /\ ui_call = UiCall("navigate", <<"Secondary", "Forward">>, TRUE)
    /\ focused_element.tag = "Link"
    /\ focused_element.from_id = "inputs" /\ focused_element.to_id = "n2"
    /\ HasLink(links, "inputs", "n1") /\ Sentinel(links)
    /\ LinkOf(links, "inputs", "n1").order < LinkOf(links, "inputs", "n2").order

\* ------------------------------------------------------------------------
\* Properties of the learning states
\* ------------------------------------------------------------------------
\* The state that follows a learning state, and the assignment learned in it
NextLearningState(st) ==
    CASE st = "LearningSelectionKnob" -> "LearningSecondaryKnob"
      [] st = "LearningSecondaryKnob" -> "LearningSelectionButton"
      [] st = "LearningSelectionButton" -> "LearningBackButton"
      [] st = "LearningBackButton" -> "Navigating"

AssignmentLearnedIn(st, config) ==
    CASE st = "LearningSelectionKnob" -> config.main_knob
      [] st = "LearningSecondaryKnob" -> config.secondary_knob
      [] st = "LearningSelectionButton" -> config.selection_button
      [] st = "LearningBackButton" -> config.back_button

\* C24: in the learning states the controller advances only on a
\* ControlChange event and only to the next state of the order main knob,
\* secondary knob, selection button, back button, Navigating, with the
\* event's channel and control as the assignment of the step; when it
\* enters Navigating the config store holds the full config.
C24_LearningOrder ==
    [][(state \in LearningStates /\ startup' = startup /\ state' # state)
       => /\ ctl_event'.event.type = "ControlChange"
          /\ state' = NextLearningState(state)
          /\ \E c \in base_control_config' :
                /\ AssignmentLearnedIn(state, c).channel = ctl_event'.event.channel
                /\ AssignmentLearnedIn(state, c).control = ctl_event'.event.control
                /\ state' = "Navigating"
                      => /\ Len(learned') = 4
                         /\ c = ConfigOf(learned')
                         /\ config_file' = {to_string_pretty(c)}]_vars

\* C24 witness: the first start of the process has learned four controls
\* and entered Navigating with the config in the store
C24_Witness ==
    /\ startup.n = 1
    /\ state = "Navigating"
    /\ ctl_event.state = "LearningBackButton"
    /\ Len(learned) = 4
    /\ learned[4] = <<ctl_event.event.channel, ctl_event.event.control>>
    /\ config_file = {to_string_pretty(ConfigOf(learned))}

\* The (channel, control) pairs learned in the earlier steps of the
\* calibration in progress
LearnedEarlier ==
    IF state = "LearningSelectionKnob" THEN {}
    ELSE {learned[i] : i \in 1..Len(learned)}

PairOf(a) == <<a.channel, a.control>>

\* C25: in a learning state a ControlChange whose (channel, control) was
\* learned in an earlier step is ignored, the state and the config being
\* left as they were; the four assignments of a config are pairwise
\* different in (channel, control).
C25_LearnedControlsIgnored ==
    /\ [][(/\ state \in LearningStates /\ startup' = startup
           /\ ctl_event'.event.type = "ControlChange"
           /\ <<ctl_event'.event.channel, ctl_event'.event.control>> \in LearnedEarlier)
          => /\ state' = state
             /\ base_control_config' = base_control_config
             /\ config_file' = config_file]_vars
    /\ [](state = "Navigating"
            => \A c \in base_control_config :
                  Cardinality({PairOf(c.main_knob), PairOf(c.secondary_knob),
                               PairOf(c.selection_button), PairOf(c.back_button)}) = 4)

\* C25 witness: the control learned as the selection button was moved
\* again while the back button was asked for, and nothing changed
C25_Witness ==
    /\ state = "LearningBackButton"
    /\ ctl_event.state = "LearningBackButton"
    /\ ~ctl_event.err
    /\ Len(learned) = 3
    /\ learned[3] = <<ctl_event.event.channel, ctl_event.event.control>>
    /\ \E c \in base_control_config : PairOf(c.back_button) = PairOf(c.main_knob)

\* C25, completion: a calibration was completed after a write of the config
\* had failed
C25_CompletedWitness ==
    /\ state = "Navigating"
    /\ Len(learned) = 4
    /\ ~startup.loaded
    /\ ctl_event.state = "LearningBackButton"

\* ------------------------------------------------------------------------
\* Properties of the back button at the menus
\* ------------------------------------------------------------------------
\* The event is a press of the back button, as process_event_browsing_menu_state
\* tells it from the other controls
BackPress(event) ==
    /\ event.type = "ControlChange"
    /\ base_control_config # {}
    /\ LET config == UnwrapOr(base_control_config, LoadedConfig)
       IN  /\ ~Matches(config.main_knob, event)
           /\ ~Matches(config.selection_button, event)
           /\ Matches(config.back_button, event)
    /\ event.value > 0

RECURSIVE BackPresses(_, _)
\* The controllers that n presses of the back button lead to
BackPresses(c, n) ==
    IF n = 0 THEN {c}
    ELSE UNION {process_midi_event(d, ControlChange(LoadedConfig.back_button.channel,
                                                    LoadedConfig.back_button.control, 127))
                : d \in BackPresses(c, n - 1)}

\* C23: in BrowsingMenu each press of the back button pops exactly one menu
\* from the stack, and when the stack becomes empty the controller is in
\* Navigating with no feature active; so from any BrowsingMenu state, as many
\* presses as the stack is deep lead to Navigating.
C23_BackPopsOneMenu ==
    /\ [][(state = "BrowsingMenu" /\ BackPress(ctl_event'.event))
          => /\ Len(menu_stack') = Len(menu_stack) - 1
             /\ menu_stack' = SubSeq(menu_stack, 1, Len(menu_stack) - 1)
             /\ menu_stack' = <<>> => (state' = "Navigating" /\ current_feature' = {})
             /\ menu_stack' # <<>> => state' = "BrowsingMenu"]_vars
    /\ []((state = "BrowsingMenu" /\ base_control_config = {LoadedConfig})
          => \A c \in BackPresses(CtlState, Len(menu_stack)) :
                /\ c.state = "Navigating"
                /\ c.feature = {}
                /\ c.ui.menus = <<>>)

\* C23 witness: the back button was pressed at the third menu of the input
\* feature, and two menus are left
C23_Witness ==
    /\ BackPress(ctl_event.event)
    /\ ctl_event.state = "BrowsingMenu"
    /\ state = "BrowsingMenu"
    /\ Len(menu_stack) = 2
    /\ current_feature = {"input"}
    /\ feature_menu_state["input"] = <<"PortTypeSelection">>

\* C23, the last menu: the back button was pressed at the context menu and
\* the controller navigates again
C23_EmptyWitness ==
    /\ BackPress(ctl_event.event)
    /\ ctl_event.state = "BrowsingMenu"
    /\ state = "Navigating"
    /\ menu_stack = <<>>
    /\ current_feature = {}

\* ------------------------------------------------------------------------
\* Properties of the feature menus
\* ------------------------------------------------------------------------
\* C22: after any sequence of selections and back presses, the menu state
\* of the active feature is the state of the menu on top of the stack: that
\* menu is the one the feature shows for its state (a feature told that the
\* top-most menu was closed has reverted to the state of the menu below).
C22_MenuStateMatchesTopMenu ==
    (state = "BrowsingMenu" /\ current_feature # {} /\ Len(menu_stack) >= 2)
        => LET f == UnwrapOr(current_feature, "input")
           IN  Last(menu_stack) \in get_menu(f, feature_menu_state[f])

\* The system features alone keep their state and the top menu together
SystemMenuStateMatchesTopMenu ==
    (state = "BrowsingMenu" /\ current_feature \in {{"input"}, {"output"}}
     /\ Len(menu_stack) >= 2)
        => LET f == UnwrapOr(current_feature, "input")
           IN  Last(menu_stack) \in get_menu(f, feature_menu_state[f])

\* A system feature was told that its port list was closed and shows the
\* endpoint list again
SystemRevertedWitness ==
    /\ BackPress(ctl_event.event)
    /\ state = "BrowsingMenu"
    /\ current_feature = {"input"}
    /\ Len(menu_stack) = 3
    /\ feature_menu_state["input"][1] = "EndpointList"
    /\ Last(menu_stack).id = <<"input", "endpoints">>

\* ------------------------------------------------------------------------
\* Properties of the link a menu session adds a node to
\* ------------------------------------------------------------------------
\* The link that a node chosen in this menu session belongs on: the link of
\* the context menu at the bottom of the stack (the system features put a
\* port on the sentinel link when that link is a port link)
SessionLink ==
    LET from_id == menu_stack[1].id[2]
        to_id == menu_stack[1].id[3]
    IN  IF /\ current_feature # {"plugin"}
           /\ HasLink(links, from_id, to_id)
           /\ LinkOf(links, from_id, to_id).link_type \in {"PortIn", "PortOut"}
        THEN <<"inputs", "outputs">>
        ELSE <<from_id, to_id>>

\* C21: a port or plugin chosen through the context menu of a link is
\* inserted on the link that was focused when the menu was opened, whatever
\* back presses and re-selections happened in the nested menus and whatever
\* sessions were abandoned before: every link the choice adds starts or
\* ends where that link does, and a choice that succeeds leaves the new
\* node between the two ends of that link.
C21_InsertedOnFocusedLink ==
    [][(/\ state = "BrowsingMenu"
        /\ order_counter' > order_counter
        /\ menu_stack # <<>>
        /\ menu_stack[1].id[1] = "link")
       => /\ \A l \in links' \ links :
                l.from_id = SessionLink[1] \/ l.to_id = SessionLink[2]
          /\ ~ctl_event'.err
                => \E n \in DOMAIN nodes' :
                      /\ HasLink(links', SessionLink[1], n)
                      /\ HasLink(links', n, SessionLink[2])]_vars

\* A port chosen without a back press in the session is on the focused link
SessionPortWitness ==
    /\ state = "Navigating"
    /\ ctl_event.state = "BrowsingMenu"
    /\ ~ctl_event.err
    /\ HasLink(links, "n1", "n3") /\ HasLink(links, "n3", "outputs")
    /\ ~HasLink(links, "n1", "outputs")

\* ------------------------------------------------------------------------
\* Properties of secondary navigation from a node
\* ------------------------------------------------------------------------
\* C31: with a node focused and no menu open, Secondary navigation takes
\* the link entering the node that has the highest visited_last, looks for
\* its sibling (same from_id, next order in the direction) and moves the
\* focus to the destination node of the sibling; without a sibling, or
\* when that destination is a Context node, the focus is unchanged. The
\* links are unchanged in every case.
C31_NodeToSiblingNode ==
    [][(/\ ui_call'.op = "navigate" /\ ui_call'.args[1] = "Secondary"
        /\ menu_stack = <<>>
        /\ focused_element.tag = "Node")
       => LET entering == {l \in links : l.to_id = focused_element.from_id}
          IN  /\ links' = links
              /\ IF entering = {} THEN focused_element' = focused_element
                 ELSE \E recent \in entering :
                         /\ \A m \in entering : m.visited_last <= recent.visited_last
                         /\ LET targets == SiblingTargets(links, recent, ui_call'.args[2])
                            IN  IF targets = {} THEN focused_element' = focused_element
                                ELSE \E x \in targets :
                                        IF MapGet(nodes, x.to_id) = "Context"
                                        THEN focused_element' = focused_element
                                        ELSE focused_element' = ElementNode(x.to_id)]_vars

\* C31 with the missing destination: as above, and the focus is unchanged
\* as well when the destination of the sibling is not in the node map (a
\* link left behind by remove_node).
C31_NodeToExistingSiblingNode ==
    [][(/\ ui_call'.op = "navigate" /\ ui_call'.args[1] = "Secondary"
        /\ menu_stack = <<>>
        /\ focused_element.tag = "Node")
       => LET entering == {l \in links : l.to_id = focused_element.from_id}
          IN  /\ links' = links
              /\ IF entering = {} THEN focused_element' = focused_element
                 ELSE \E recent \in entering :
                         /\ \A m \in entering : m.visited_last <= recent.visited_last
                         /\ LET targets == SiblingTargets(links, recent, ui_call'.args[2])
                            IN  IF targets = {} THEN focused_element' = focused_element
                                ELSE \E x \in targets :
                                        IF x.to_id \notin DOMAIN nodes
                                           \/ MapGet(nodes, x.to_id) = "Context"
                                        THEN focused_element' = focused_element
                                        ELSE focused_element' = ElementNode(x.to_id)]_vars

\* C31 witness: Secondary Backward moved the focus to the node n1, from
\* the node that the next sibling of the link entering n1 leads to
C31_Witness ==
    /\ ui_call = UiCall("navigate", <<"Secondary", "Backward">>, TRUE)
    /\ focused_element = ElementNode("n1")
    /\ \A s \in navigate(UiState, "Secondary", "Forward") : s.focused = ElementNode("n2")

\* C31, the Context case: the sibling of the link entering the focused node
\* leads to the outputs anchor, and Secondary Forward left the focus alone
C31_ContextWitness ==
    /\ ui_call = UiCall("navigate", <<"Secondary", "Forward">>, TRUE)
    /\ focused_element = ElementNode("n2")
    /\ \E recent \in {l \in links : l.to_id = "n2"} :
          /\ \A m \in links : m.to_id = "n2" => m.visited_last <= recent.visited_last
          /\ \E x \in SiblingTargets(links, recent, "Forward") : x.to_id = "outputs"

\* ------------------------------------------------------------------------
\* Properties of primary navigation there and back
\* ------------------------------------------------------------------------
\* C32: from a focused node with a link leaving it, Main Forward and then
\* Main Backward lead back to the node, and a further Main Forward leads
\* to the link the first Forward led to; with a link entering the node,
\* Main Backward and then Main Forward lead back to the node.
C32_ThereAndBack ==
    (focused_element.tag = "Node" /\ menu_stack = <<>>)
        => LET node == focused_element.from_id
           IN  /\ (\E l \in links : l.from_id = node)
                    => \A s1 \in navigate(UiState, "Main", "Forward") :
                          /\ s1.focused.tag = "Link" /\ s1.focused.from_id = node
                          /\ \A s2 \in navigate(s1, "Main", "Backward") :
                                /\ s2.focused = focused_element
                                /\ \A s3 \in navigate(s2, "Main", "Forward") :
                                      s3.focused = s1.focused
               /\ (\E l \in links : l.to_id = node)
                    => \A s1 \in navigate(UiState, "Main", "Backward") :
                          /\ s1.focused.tag = "Link" /\ s1.focused.to_id = node
                          /\ \A s2 \in navigate(s1, "Main", "Forward") :
                                s2.focused = focused_element

\* There and back holds in every state whose focus names an existing
\* element: it fails only after remove_node has left the focus on a node
\* that is gone
ThereAndBackFromExistingNode ==
    C1_FocusReferencesExisting => C32_ThereAndBack

\* C32 witness: Main Backward led back to the node n1, which two links
\* leave, from the link that Main Forward had led to before; that link is
\* not the one that was visited last when the node was inserted
C32_Witness ==
    /\ ui_call = UiCall("navigate", <<"Main", "Backward">>, TRUE)
    /\ focused_element = ElementNode("n1")
    /\ Cardinality({l \in links : l.from_id = "n1"}) = 2
    /\ \E l \in links :
          /\ l.from_id = "n1" /\ l.visited_last = visit_counter /\ visit_counter = 1
          /\ \E m \in links : m.from_id = "n1" /\ m.order > l.order

\* ------------------------------------------------------------------------
\* Frame of navigate
\* ------------------------------------------------------------------------
\* A link without its visit mark: ends, order and kind
LinkShape(l) == <<l.from_id, l.to_id, l.order, l.link_type>>

\* What every call of navigate leaves alone: the node map, the links up to
\* their visit marks, and the visit marks too unless the call is primary
\* navigation from a focused node with no menu open
NavigateFrame ==
    /\ nodes' = nodes
    /\ order_counter' = order_counter
    /\ {LinkShape(l) : l \in links'} = {LinkShape(l) : l \in links}
    /\ Cardinality(links') = Cardinality(links)
    /\ (\/ ui_call'.args[1] = "Secondary"
        \/ focused_element.tag = "Link"
        \/ menu_stack # <<>>)
          => links' = links /\ visit_counter' = visit_counter

\* C33: navigate adds or removes no node and no link and changes the order
\* and kind of no link; secondary navigation, primary navigation from a
\* focused link and navigation while a menu is open leave every
\* visited_last unchanged; navigation while a menu is open leaves the graph
\* focus unchanged.
C33_NavigateFrame ==
    [][ui_call'.op = "navigate"
       => /\ NavigateFrame
          /\ menu_stack # <<>> => focused_element' = focused_element]_vars

\* C33 for primary navigation under a menu: the frame as above, and the
\* graph focus is unchanged by primary navigation while a menu is open.
C33_PrimaryKeepsFocusUnderMenu ==
    [][ui_call'.op = "navigate"
       => /\ NavigateFrame
          /\ (menu_stack # <<>> /\ ui_call'.args[1] = "Main")
                => focused_element' = focused_element]_vars

\* C33 witness: primary Forward under an open menu moved the focused option
\* to the second one while the focus stayed on a link of the graph that
\* primary navigation had marked as visited before
C33_Witness ==
    /\ ui_call = UiCall("navigate", <<"Main", "Forward">>, TRUE)
    /\ menu_stack # <<>> /\ focused_menu_option = {1}
    /\ focused_element.tag = "Link"
    /\ \E l \in links : l.visited_last > 0 /\ l.visited_last = visit_counter

\* Secondary navigation under an open menu moved the graph focus from one
\* link to its sibling
SecondaryUnderMenuWitness ==
    /\ ui_call = UiCall("navigate", <<"Secondary", "Forward">>, TRUE)
    /\ menu_stack # <<>>
    /\ focused_element.tag = "Link"
    /\ \E l, m \in links :
          /\ l.from_id = focused_element.from_id /\ l.to_id = focused_element.to_id
          /\ m.from_id = l.from_id /\ m.order < l.order

\* ------------------------------------------------------------------------
\* Properties of primary navigation in a menu
\* ------------------------------------------------------------------------
\* The option index that primary navigation leads to from index i of n
MenuStep(i, n, direction) ==
    IF direction = "Forward" THEN (i + 1) % n ELSE (i + n - 1) % n

\* A call of navigate(Main, _) with a menu of at least one option on top
\* and one of its options focused
MenuNavigation ==
    /\ ui_call'.op = "navigate" /\ ui_call'.args[1] = "Main"
    /\ menu_stack # <<>>
    /\ Len(Last(menu_stack).options) >= 1
    /\ \E i \in focused_menu_option : i < Len(Last(menu_stack).options)

\* C34: with a menu of n >= 1 options open and option i focused, primary
\* Forward focuses option (i + 1) mod n and primary Backward option
\* (i - 1) mod n, and the new index is stored in the per-menu memory under
\* the id of the top menu.
C34_MenuWrapsAndRemembers ==
    [][MenuNavigation
       => LET menu == Last(menu_stack)
              new_idx == MenuStep(UnwrapOr(focused_menu_option, 0),
                                  Len(menu.options), ui_call'.args[2])
          IN  /\ focused_menu_option' = {new_idx}
              /\ menu_stack' = menu_stack
              /\ menu.id \in DOMAIN menu_focus_memory'
              /\ menu_focus_memory'[menu.id] = new_idx]_vars

\* C34 with the write on change only: the focused option moves as above;
\* when the index changes it is stored in the memory under the id of the
\* top menu, and when it does not (a menu of one option) the memory is
\* left as it is.
C34_MenuWrapsAndRemembersMoves ==
    [][MenuNavigation
       => LET menu == Last(menu_stack)
              current_idx == UnwrapOr(focused_menu_option, 0)
              new_idx == MenuStep(current_idx, Len(menu.options), ui_call'.args[2])
          IN  /\ focused_menu_option' = {new_idx}
              /\ menu_stack' = menu_stack
              /\ menu_focus_memory' =
                    IF new_idx # current_idx
                    THEN MapInsert(menu_focus_memory, menu.id, new_idx)
                    ELSE menu_focus_memory]_vars

\* C34 witness: primary Backward has wrapped from the first option of a
\* menu of MaxMenuOptions options to its last one, and the memory holds it
C34_Witness ==
    /\ ui_call = UiCall("navigate", <<"Main", "Backward">>, TRUE)
    /\ menu_stack # <<>>
    /\ Len(Last(menu_stack).options) = MaxMenuOptions
    /\ focused_menu_option = {MaxMenuOptions - 1}
    /\ Last(menu_stack).id \in DOMAIN menu_focus_memory
    /\ menu_focus_memory[Last(menu_stack).id] = MaxMenuOptions - 1
    /\ \E s \in navigate(UiState, "Main", "Forward") : s.option = {0}

\* Primary navigation in a menu of one option has left in the memory an
\* index that is not the focused one
SingleOptionWitness ==
    /\ ui_call.op = "navigate" /\ ui_call.args[1] = "Main"
    /\ menu_stack # <<>>
    /\ Len(Last(menu_stack).options) = 1
    /\ focused_menu_option = {0}
    /\ Last(menu_stack).id \in DOMAIN menu_focus_memory
    /\ menu_focus_memory[Last(menu_stack).id] # 0

\* C35: primary navigation while the top menu has no options is a no-op in
\* both directions: the focused option index and the per-menu memory are
\* left as they are, so that the index never leaves the range.
C35_EmptyMenuNoOp ==
    [][(/\ ui_call'.op = "navigate" /\ ui_call'.args[1] = "Main"
        /\ menu_stack # <<>>
        /\ Len(Last(menu_stack).options) = 0)
       => /\ focused_menu_option' = focused_menu_option
          /\ menu_focus_memory' = menu_focus_memory
          /\ menu_stack' = menu_stack]_vars

\* The underflow of option_count - 1: primary Backward in a menu without
\* options has focused the index usize::MAX and stored it in the memory
EmptyMenuUnderflowWitness ==
    /\ ui_call = UiCall("navigate", <<"Main", "Backward">>, TRUE)
    /\ menu_stack # <<>>
    /\ Len(Last(menu_stack).options) = 0
    /\ focused_menu_option = {USIZE_MAX}
    /\ Last(menu_stack).id \in DOMAIN menu_focus_memory
    /\ menu_focus_memory[Last(menu_stack).id] = USIZE_MAX

\* ------------------------------------------------------------------------
\* Properties of the menu focus memory
\* ------------------------------------------------------------------------
\* open_menu pushes the menu and focuses the index remembered for its id,
\* or 0 when there is none or when it is not an index of the menu
OpenFocusesRemembered ==
    ui_call'.op = "open_menu"
       => LET menu == ui_call'.args[1]
              remembered == IF menu.id \in DOMAIN menu_focus_memory
                            THEN menu_focus_memory[menu.id] ELSE 0
          IN  /\ menu_stack' = Append(menu_stack, menu)
              /\ menu_focus_memory' = menu_focus_memory
              /\ focused_menu_option' =
                    {IF remembered < Len(menu.options) THEN remembered ELSE 0}

\* After close_menu, opening the closed menu again focuses the index that
\* was focused before the close
ReopenRestores ==
    (ui_call'.op = "close_menu" /\ ui_call'.ok)
       => open_menu(UiState', Last(menu_stack)).s.option = focused_menu_option

\* C36: open_menu pushes the menu and focuses the index remembered for its
\* id (0 if none), brought into the range of its options; closing a menu
\* and opening it again with the same id and options focuses the index
\* that was focused before the close.
C36_OpenRestoresFocus ==
    [][OpenFocusesRemembered /\ ReopenRestores]_vars

\* The same for a focused index that is an index of the closed menu
C36_OpenRestoresFocusedOption ==
    [][/\ OpenFocusesRemembered
       /\ (/\ menu_stack # <<>>
           /\ \E i \in focused_menu_option : i < Len(Last(menu_stack).options))
             => ReopenRestores]_vars

\* close_menu has focused, in the menu below, an index that is not one of
\* its options (the index remembered for its id), without the underflow of
\* an empty menu
CloseFocusesOutOfRangeWitness ==
    /\ ui_call = UiCall("close_menu", <<>>, TRUE)
    /\ menu_stack # <<>>
    /\ \E i \in focused_menu_option :
          /\ Len(Last(menu_stack).options) >= 1
          /\ i >= Len(Last(menu_stack).options) /\ i < MaxMenuOptions

\* ------------------------------------------------------------------------
\* Properties of select
\* ------------------------------------------------------------------------
\* A call of select, which leaves the model state as it is
SelectStep ==
    /\ ui_call'.op = "select"
    /\ UiState' = UiState

\* C37: select changes no model state; whenever a menu is open it returns
\* the focused option of the top menu as a MenuOption, and only when no
\* menu is open the graph focus.
C37_SelectPrefersMenu ==
    [][ui_call'.op = "select"
       => /\ SelectStep
          /\ IF menu_stack # <<>>
             THEN \E i \in focused_menu_option :
                     /\ i < Len(Last(menu_stack).options)
                     /\ ui_call'.args[1] =
                           ElementMenuOption(Last(menu_stack).id,
                                             Last(menu_stack).options[i + 1])
             ELSE ui_call'.args[1] = focused_element]_vars

\* C37 for a focused index that is an option: select changes no model
\* state; when a menu is open and the focused index is an index of the top
\* menu, it returns that option as a MenuOption; otherwise (no menu, or a
\* menu whose options do not include the focused index, such as an empty
\* menu) it returns the graph focus.
C37_SelectPrefersFocusedOption ==
    [][ui_call'.op = "select"
       => /\ SelectStep
          /\ IF /\ menu_stack # <<>>
                /\ \E i \in focused_menu_option : i < Len(Last(menu_stack).options)
             THEN \E i \in focused_menu_option :
                     ui_call'.args[1] =
                        ElementMenuOption(Last(menu_stack).id,
                                          Last(menu_stack).options[i + 1])
             ELSE ui_call'.args[1] = focused_element]_vars

\* C37 witness: with a menu open and its last option focused, select has
\* returned that option while a link of the graph is focused
C37_Witness ==
    /\ ui_call.op = "select"
    /\ menu_stack # <<>>
    /\ focused_menu_option = {Len(Last(menu_stack).options) - 1}
    /\ Len(Last(menu_stack).options) = MaxMenuOptions
    /\ ui_call.args[1] = ElementMenuOption(Last(menu_stack).id,
                                           <<"timestamp", MaxMenuOptions>>)
    /\ focused_element.tag = "Link"

\* With an empty menu open, select has returned the focused node
SelectUnderEmptyMenuWitness ==
    /\ ui_call.op = "select"
    /\ menu_stack # <<>>
    /\ Len(Last(menu_stack).options) = 0
    /\ focused_menu_option = {0}
    /\ ui_call.args[1] = focused_element
    /\ focused_element.tag = "Node"

\* ------------------------------------------------------------------------
\* Events that the controller ignores
\* ------------------------------------------------------------------------
\* The events that Navigating and BrowsingMenu do not act on: an event that
\* is not a ControlChange, a ControlChange of none of the four assignments,
\* a ControlChange of the selection or back button with value 0, and in
\* BrowsingMenu a ControlChange of the secondary knob
IgnoredEvent(event) ==
    LET config == UnwrapOr(base_control_config, LoadedConfig) IN
    \/ event.type # "ControlChange"
    \/ /\ ~Matches(config.main_knob, event)
       /\ ~Matches(config.secondary_knob, event)
       /\ ~Matches(config.selection_button, event)
       /\ ~Matches(config.back_button, event)
    \/ /\ Matches(config.selection_button, event) \/ Matches(config.back_button, event)
       /\ event.value = 0
    \/ /\ state = "BrowsingMenu"
       /\ Matches(config.secondary_knob, event)

\* C38: in Navigating and BrowsingMenu an ignored event changes nothing:
\* the controller state, both accumulators, the graph focus, the menu
\* stack, the focused option and the graph stay as they are.
C38_IgnoredEventsChangeNothing ==
    [][(/\ state \in {"Navigating", "BrowsingMenu"}
        /\ ctl_event' # ctl_event
        /\ IgnoredEvent(ctl_event'.event))
       => /\ UNCHANGED <<state, main_knob_accumulator, secondary_knob_accumulator>>
          /\ UNCHANGED <<current_feature, current_element, feature_menu_state>>
          /\ UiState' = UiState]_vars

\* C38 witness: the secondary knob was turned in BrowsingMenu, with a menu
\* open and the main knob's accumulator away from its initial value
C38_Witness ==
    /\ state = "BrowsingMenu" /\ ctl_event.state = "BrowsingMenu"
    /\ ctl_event.event = ControlChange(0, 10, 64)
    /\ menu_stack # <<>>
    /\ main_knob_accumulator # 0

\* A release of the selection button (value 0) was received in
\* BrowsingMenu
ReleaseInMenuWitness ==
    /\ state = "BrowsingMenu" /\ ctl_event.state = "BrowsingMenu"
    /\ ctl_event.event = ControlChange(0, 20, 0)
    /\ menu_stack # <<>>

\* ------------------------------------------------------------------------
\* Properties of the locking of the graph model
\* ------------------------------------------------------------------------
\* A thread waits: its next step locks a mutex that a thread holds
Waiting(t) ==
    /\ thread_pc[t] # <<>>
    /\ Head(thread_pc[t])[1] = "lock"
    /\ mutex_owner[Head(thread_pc[t])[2]] # Unlocked

\* C39: two threads calling operations of the graph model concurrently
\* (navigate on one, create_node, create_link or select on the other)
\* cannot deadlock: they are never both waiting for a mutex that the
\* other one holds.
C39_NoDeadlock ==
    ~(\A t \in UiThreads :
         /\ Waiting(t)
         /\ mutex_owner[Head(thread_pc[t])[2]] # t)

\* No call locks a mutex that its own thread holds: alone, every call
\* returns
NoSelfDeadlock ==
    \A t \in UiThreads : Waiting(t) => mutex_owner[Head(thread_pc[t])[2]] # t

\* The deadlock: navigate holds the focus and waits for the links, which
\* display_graph holds while it waits for the focus
FocusLinksDeadlockWitness ==
    /\ mutex_owner["focused_element"] = "navigating"
    /\ mutex_owner["links"] = "building"
    /\ Waiting("navigating") /\ Head(thread_pc["navigating"]) = Lock("links")
    /\ Waiting("building") /\ Head(thread_pc["building"]) = Lock("focused_element")

\* ------------------------------------------------------------------------
\* Properties of the ports of a block
\* ------------------------------------------------------------------------
\* The path is a direct child of the path of the block: the path of the
\* block, a '/', and one segment
DirectChild(uri, block_id) ==
    /\ starts_with(uri, block_id \o <<"/">>)
    /\ Len(uri) > Len(block_id) + 1
    /\ \A i \in (Len(block_id) + 2)..Len(uri) : uri[i] # "/"

\* The body carries a type (audio or CV) and a direction
TypedAndDirected(graph, body) ==
    /\ \E type \in {"AudioPort", "CVPort"} :
          <<body, Ns("rdf", "type"), Ns("lv2", type)>> \in graph
    /\ \E direction \in {"InputPort", "OutputPort"} :
          <<body, Ns("rdf", "type"), Ns("lv2", direction)>> \in graph

\* The ids of the ports that belong to a block: the last segments of the
\* direct children of its path that have a type and a direction
PortIdsOfBlock(graph, block_id) ==
    {LastSegment(put[1]) :
        put \in {x \in PutSubjects(graph) :
                    DirectChild(x[1], block_id) /\ TypedAndDirected(graph, x[2])}}

\* C40: parse_graph gives each block exactly the ports whose path is a
\* direct child of the path of the block and whose body carries a type
\* (audio or CV) and a direction, once each and sorted by id; the port of
\* another block whose id shares a prefix, and a port with a type but no
\* direction or a direction but no type, are not among them.
C40_BlockHasItsPorts ==
    \A graph \in parsed_graph : \A block \in graph.blocks :
        /\ {block.ports[i].id : i \in 1..Len(block.ports)}
              = PortIdsOfBlock(parse_response(state_response), block.id)
        /\ \A i \in 1..(Len(block.ports) - 1) :
              StrLess(block.ports[i].id, block.ports[i + 1].id)

\* The block a has its two ports, sorted by id, of a state with no other
\* path that starts with the path of a
OwnPortsWitness ==
    \E graph \in parsed_graph : \E block \in graph.blocks :
        /\ block.id = MainPath(<<"a">>)
        /\ Len(block.ports) = 2
        /\ block.ports[1].id = <<"2">> /\ block.ports[2].id = <<"i">>
        /\ \A put \in PutSubjects(parse_response(state_response)) :
              ~starts_with(put[1], MainPath(<<"a", "2">>))

\* The block a has the port i of the block a2: the state has no port i
\* below a, and the path of the port of a2 starts with the path of a
PrefixPortWitness ==
    \E graph \in parsed_graph : \E block \in graph.blocks :
        /\ block.id = MainPath(<<"a">>)
        /\ Len(block.ports) = 1 /\ block.ports[1].id = <<"i">>
        /\ \A put \in PutSubjects(parse_response(state_response)) :
              put[1] # MainPath(<<"a", "/", "i">>)

\* A port with a type and no direction, or with a direction and no type,
\* is in no block
C40_PartialPortsSkipped ==
    \A graph \in parsed_graph : \A block \in graph.blocks :
        \A i \in 1..Len(block.ports) :
            \E put \in PutSubjects(parse_response(state_response)) :
                /\ LastSegment(put[1]) = block.ports[i].id
                /\ starts_with(put[1], block.id)
                /\ TypedAndDirected(parse_response(state_response), put[2])

====
